---------------------------- MODULE Spec2Model ----------------------------
(***************************************************************************)
(* The e-commerce backend, one action per request handler, requests        *)
(* executed one at a time: the cart workflow (Cart and Product documents,  *)
(* cart handlers of controllers/productController.js) under Spec, the      *)
(* group join workflow (controllers/groupController.js) under SpecGroups,  *)
(* and the products, product images and category counts of the catalogue   *)
(* under SpecCatalogue and SpecPrimaryFlags.                               *)
(***************************************************************************)
EXTENDS Integers, Sequences, FiniteSets, TLC

(* ------------------------------ bounds -------------------------------- *)

\* largest product stock / requested quantity
MaxStock == 2
\* largest product price
MaxPrice == 2
\* last day of the clock
MaxDay == 1
\* requests served
MaxRequests == 4
\* group requests served
MaxGroupRequests == 5
\* catalogue requests served
MaxCatalogueRequests == 4
\* image documents the collection may hold
MaxImages == 3
\* files of one upload request
MaxFiles == 2
MaxNameRequests == 3
MaxRaceRequests == 3
MaxUserRequests == 3

(* --------------------------- program constants ------------------------ *)

\* cartSchema notes / admin_notes maxLength
NotesMaxLength == 500
\* validateCartApprovalParams: admin_notes isLength max
AdminNotesValidatorMax == 1000

Users == {"u1", "u2"}
Admins == {"admin"}
ProductIds == {"p1", "p2"}

NoUser == "none"
NoDate == -1
NoNotes == -1

\* A note is represented by its length after trim.
UserNotes == {1}
AdminNotes == {n \in {1, NotesMaxLength + 1} : n <= AdminNotesValidatorMax}

GroupIds == {"g1", "g2"}
ServiceIds == {"s1", "s2"}
NoService == "none"
BlogIds == {"b1", "b2"}
\* Authenticated users: the customers and the system admin.
Actors == Users \cup Admins

VARIABLES products, carts, now, resp, requests
CategoryIds == {"c1", "c2"}
ImageIds == 1..MaxImages

NoCategory == "none"

\* The groups collection.
VARIABLES groups
\* The categories and productimages collections.
VARIABLES categories, images
\* The media store: the public ids of the assets it holds.
VARIABLES media
\* The services and blogs collections.
VARIABLES services, blogs
\* The requests being served that stand between two of their awaits, each
\* with what it has read so far.
VARIABLES inflight
\* The users collection.
VARIABLES users

vars ==
  <<products, carts, now, resp, requests, groups, categories, images, media,
    services, blogs, inflight, users>>

\* The requests the server can be serving at the same time.
RequestIds == {"r1", "r2"}

\* A request slot that serves nothing.
Idle == [op |-> "idle"]

(* --------------------------- names and slugs -------------------------- *)

\* A name or title is the sequence of its characters.
NoName == <<>>

\* The names and titles requests carry: ab, ab!, a b and Ab.
Names ==
  {<<"a", "b">>, <<"a", "b", "!">>, <<"a", " ", "b">>, <<"A", "b">>}

\* The name of a seeded document, and of a document created where the name
\* plays no part: the first id of each collection is named ab, the second a b.
NameOf(id) ==
  IF id \in {"p1", "g1", "c1", "s1", "b1"} THEN <<"a", "b">> ELSE <<"a", " ", "b">>

LowerCaseOf(c) == IF c = "A" THEN "a" ELSE IF c = "B" THEN "b" ELSE c

\* String.prototype.toLowerCase
toLowerCase(str) == [i \in 1..Len(str) |-> LowerCaseOf(str[i])]

Alphanumeric ==
  {"a", "b", "A", "B", "0", "1", "2", "3", "4", "5", "6", "7", "8", "9"}

\* .replace(/[^a-zA-Z0-9\s]/g, ""): every character that is neither a
\* letter, a digit nor white space is removed.
removeSpecial(str) == SelectSeq(str, LAMBDA c : c \in Alphanumeric \cup {" "})

RECURSIVE dropLeadingSpaces(_)
dropLeadingSpaces(str) ==
  IF str # <<>> /\ Head(str) = " " THEN dropLeadingSpaces(Tail(str)) ELSE str

\* .replace(/\s+/g, "-"): every run of white space becomes one hyphen.
RECURSIVE replaceSpaces(_)
replaceSpaces(str) ==
  IF str = <<>> THEN <<>>
  ELSE IF Head(str) = " "
    THEN <<"-">> \o replaceSpaces(dropLeadingSpaces(str))
  ELSE <<Head(str)>> \o replaceSpaces(Tail(str))

RECURSIVE dropTrailingSpaces(_)
dropTrailingSpaces(str) ==
  IF str # <<>> /\ str[Len(str)] = " "
    THEN dropTrailingSpaces(SubSeq(str, 1, Len(str) - 1))
    ELSE str

\* String.prototype.trim
trim(str) == dropTrailingSpaces(dropLeadingSpaces(str))

\* The base slug the pre("save") hooks derive from a name or title.
baseSlug(name) == trim(replaceSpaces(removeSpecial(toLowerCase(name))))

Digit(n) == <<"0", "1", "2", "3", "4", "5", "6", "7", "8", "9">>[n + 1]

\* `${counter}`: the decimal digits of a number.
RECURSIVE Decimal(_)
Decimal(n) ==
  IF n < 10 THEN <<Digit(n)>> ELSE Decimal(n \div 10) \o <<Digit(n % 10)>>

\* The loop of the pre("save") hooks of Product, Group, Service and Blog:
\* while a document other than this one has the slug, the slug becomes
\* `${baseSlug}-${counter}` with the next counter. taken is the set of slugs
\* of the other documents of the collection.
RECURSIVE probeSlug(_, _, _, _)
probeSlug(taken, base, slug, counter) ==
  IF slug \in taken
    THEN probeSlug(taken, base, base \o <<"-">> \o Decimal(counter), counter + 1)
    ELSE slug

uniqueSlug(taken, base) == probeSlug(taken, base, base, 1)

\* The slugs of the documents of a collection other than document id.
SlugsOfOthers(collection, id) ==
  {collection[j].slug : j \in {k \in DOMAIN collection :
                                 k # id /\ collection[k].exists}}

(* ------------------------------ Product ------------------------------- *)

\* A product id with no document (never created, or deleted).
NoProduct == [exists |-> FALSE, price |-> 0, quantity |-> 0,
              is_active |-> FALSE, expiration_date |-> 0,
              category_id |-> NoCategory, name |-> NoName, slug |-> NoName]

Prices == 1..MaxPrice
Quantities == 0..MaxStock
\* Days a request may name as an expiration date.
Dates == 1..(MaxDay + 1)

\* Request bodies of updateProduct: each names one field. validateUpdateProduct
\* refuses an expiration_date that is not after today.
UpdateBodies ==
  [{"price"} -> Prices] \cup [{"quantity"} -> Quantities]
    \cup [{"is_active"} -> BOOLEAN]
    \cup [{"expiration_date"} -> {d \in Dates : d > now}]

\* The catalogue the server starts with: every product created (createProduct
\* gives is_active its default), in stock and not yet expired.
SeedProduct(p) ==
  [exists |-> TRUE, price |-> IF p = "p1" THEN 1 ELSE MaxPrice,
   quantity |-> MaxStock, is_active |-> TRUE,
   expiration_date |-> IF p = "p1" THEN 1 ELSE MaxDay + 1,
   category_id |-> IF p = "p1" THEN "c1" ELSE "c2",
   name |-> NameOf(p), slug |-> baseSlug(NameOf(p))]

\* new Product({...}) of createProduct in category c, before the pre("save")
\* hook gives it its slug; the other fields of the request are fixed: they
\* pass validateCreateProduct and the schema.
NewProduct(c, name) ==
  [exists |-> TRUE, price |-> 1, quantity |-> MaxStock, is_active |-> TRUE,
   expiration_date |-> MaxDay + 1, category_id |-> c,
   name |-> name, slug |-> NoName]

\* Request bodies of updateProduct that name the product.
RenameBodies == [{"name"} -> Names]

\* productSchema.pre("save") on document p of the collection: a new or
\* renamed product gets the first free slug of its name.
productPreSave(collection, p, before) ==
  IF ~before.exists \/ collection[p].name # before.name
    THEN [collection EXCEPT
            ![p].slug = uniqueSlug(SlugsOfOthers(collection, p),
                                   baseSlug(collection[p].name))]
    ELSE collection

\* A phone of a request body, by the characters it is made of; the route
\* validators do not look at it.
Phones == {"digits", "letters"}

\* The phone validator of productSchema: /^[\+]?[\d\s\-\(\)]+$/.test(v).
PhoneFormatValid(v) == v = "digits"

\* Request bodies of updateProduct that name a category, with or without a
\* phone.
MoveBodies ==
  {[category_id |-> c] : c \in CategoryIds}
    \cup {[category_id |-> c, phone |-> ph] : c \in CategoryIds, ph \in Phones}

\* Mutant of ProductSaves: the save never fails.
ProductSavesAlways(body) == TRUE

\* product.save() of updateProduct passes the schema validation: the stored
\* fields were valid when they were saved, and the body's price, quantity and
\* expiration_date have passed validateUpdateProduct.
ProductSaves(body) ==
  "phone" \in DOMAIN body => PhoneFormatValid(body.phone)

(* ------------------------------ Category ------------------------------ *)

\* A category id with no document.
NoCategoryDoc ==
  [exists |-> FALSE, is_active |-> FALSE, counts |-> 0, logo_public_id |-> "",
   name |-> NoName, slug |-> NoName]

\* The public id the media store gives the logo uploaded for category c.
LogoOf(c) == IF c = "c1" THEN "logo-c1" ELSE "logo-c2"

\* new Category({ name, description, logo_url, logo_public_id }), before the
\* pre('save') hook gives it its slug.
NewCategory(name, logo_public_id) ==
  [exists |-> TRUE, is_active |-> TRUE, counts |-> 0,
   logo_public_id |-> logo_public_id, name |-> name, slug |-> NoName]

\* categorySchema.pre('save') on document c of the collection: a new or
\* renamed category gets the base slug of its name, whoever else has it.
categoryPreSave(collection, c, before) ==
  IF ~before.exists \/ collection[c].name # before.name
    THEN [collection EXCEPT ![c].slug = baseSlug(collection[c].name)]
    ELSE collection

\* The unique index on slug (and on name) lets the write of document c through.
categoryIndexAccepts(collection, c) ==
  \A k \in DOMAIN collection :
    k # c /\ collection[k].exists
    => /\ collection[k].slug # collection[c].slug
       /\ collection[k].name # collection[c].name

\* Category.findOne({ name: { $regex: new RegExp(`^${name}$`, 'i') } }) with
\* _id other than c: some other category has the name, letter case aside.
categoryNameExists(collection, c, name) ==
  \E k \in DOMAIN collection :
    /\ k # c /\ collection[k].exists
    /\ toLowerCase(collection[k].name) = toLowerCase(name)

\* The categories the server starts with: active, counting the seeded
\* products; c1 was created with a logo, c2 without one (logo_public_id is
\* optional).
SeedCategory(c) ==
  [exists |-> TRUE, is_active |-> TRUE,
   counts |-> Cardinality({p \in ProductIds : SeedProduct(p).category_id = c}),
   logo_public_id |-> IF c = "c1" THEN LogoOf(c) ELSE "",
   name |-> NameOf(c), slug |-> baseSlug(NameOf(c))]

\* The assets the media store starts with: the logos of the seeded categories.
SeedMedia ==
  {SeedCategory(c).logo_public_id : c \in CategoryIds} \ {""}

\* deleteImage when cloudinary.uploader.destroy resolves, with the wrong
\* effect: the asset stays in the store.
deleteImageKeepsAsset(store, publicId) == store

\* deleteImage when cloudinary.uploader.destroy resolves: the asset is gone.
\* When destroy rejects, deleteImage throws 'Image deletion failed' and the
\* store is as before (the caller models the throw).
deleteImage(store, publicId) == store \ {publicId}

\* categorySchema.methods.incrementCount
incrementCount(category) == [category EXCEPT !.counts = @ + 1]

\* categorySchema.methods.decrementCount
decrementCount(category) ==
  IF category.counts > 0 THEN [category EXCEPT !.counts = @ - 1] ELSE category

(* ---------------------------- ProductImage ---------------------------- *)

\* An image id with no document.
NoImage == [exists |-> FALSE, product_id |-> "none", is_active |-> FALSE,
            is_primary |-> FALSE, order |-> 0]

\* new ProductImage({...}): is_active takes its default.
NewImage(p, is_primary, order) ==
  [exists |-> TRUE, product_id |-> p, is_active |-> TRUE,
   is_primary |-> is_primary, order |-> order]

\* Ids of the images of product p.
ImagesOf(imgs, p) == {i \in ImageIds : imgs[i].exists /\ imgs[i].product_id = p}

\* The n smallest ids the collection does not use: the ids of n inserts, in
\* the order of the files.
RECURSIVE FreshIds(_, _)
FreshIds(imgs, n) ==
  LET free == {i \in ImageIds : ~imgs[i].exists}
      first == CHOOSE i \in free : \A j \in free : i <= j
  IN IF n = 0 \/ free = {} THEN <<>>
     ELSE <<first>> \o FreshIds([imgs EXCEPT ![first].exists = TRUE], n - 1)

\* ProductImage.insertMany(files.map((file, index) => new ProductImage(...)))
\* for n files: file index (from 0) is primary when firstIsPrimary and index is
\* 0, and has order base + index.
insertMany(imgs, p, n, firstIsPrimary, base) ==
  LET ids == FreshIds(imgs, n)
  IN [i \in ImageIds |->
        IF \E k \in 1..Len(ids) : ids[k] = i
          THEN LET k == CHOOSE k \in 1..Len(ids) : ids[k] = i
               IN NewImage(p, firstIsPrimary /\ k = 1, base + (k - 1))
          ELSE imgs[i]]

\* Mutant of preSaveImage: the hook clears nothing.
preSaveImageKeepsOthers(imgs, i, before) == imgs

\* productImageSchema.pre("save") for image i, whose document was `before`
\* when it was read: when is_primary is set and was modified, every other
\* image of the product loses is_primary.
preSaveImage(imgs, i, before) ==
  IF imgs[i].is_primary /\ imgs[i].is_primary # before.is_primary
    THEN [j \in ImageIds |->
            IF j # i /\ imgs[j].exists /\ imgs[j].product_id = imgs[i].product_id
              THEN [imgs[j] EXCEPT !.is_primary = FALSE]
              ELSE imgs[j]]
    ELSE imgs

\* Mutant of setPrimaryImageStatic: the siblings are not cleared first.
setPrimaryImageNoClear(imgs, imageId, productId) ==
  [imgs EXCEPT ![imageId].is_primary = TRUE]

\* productImageSchema.statics.setPrimaryImage: updateMany clears is_primary on
\* every image of the product, then findByIdAndUpdate sets it on imageId.
setPrimaryImageStatic(imgs, imageId, productId) ==
  [j \in ImageIds |->
     IF j = imageId THEN [imgs[j] EXCEPT !.is_primary = TRUE]
     ELSE IF imgs[j].exists /\ imgs[j].product_id = productId
       THEN [imgs[j] EXCEPT !.is_primary = FALSE]
     ELSE imgs[j]]

\* Product.findById(id): the document, or null (NoProduct).
findProduct(p) == products[p]

\* The is_expired virtual: new Date() > new Date(expiration_date). now is the
\* current day and the clock reads an instant after that day's midnight, while
\* an expiration_date parses to its day's midnight: the product is expired from
\* its expiration day on. A document read without expiration_date (NoDate) is
\* never expired.
is_expired(doc) ==
  IF doc.expiration_date = NoDate THEN FALSE ELSE now >= doc.expiration_date

\* populate("items.product_id", "name price quantity is_active expiration_date")
PopulateFull(p) == products[p]

\* populate("items.product_id", "name price quantity"): is_active and
\* expiration_date are not selected, so they read as undefined (falsy).
PopulateNamePriceQuantity(p) ==
  IF products[p].exists
    THEN [products[p] EXCEPT !.is_active = FALSE, !.expiration_date = NoDate]
    ELSE products[p]

(* -------------------------------- Cart -------------------------------- *)

RECURSIVE SumQuantity(_)
SumQuantity(items) ==
  IF items = <<>> THEN 0
  ELSE items[1].quantity + SumQuantity(Tail(items))

RECURSIVE SumAmount(_)
SumAmount(items) ==
  IF items = <<>> THEN 0
  ELSE items[1].price_at_time * items[1].quantity + SumAmount(Tail(items))

\* Mutant of PreSave: the hook leaves the totals as they were.
PreSaveKeepsTotals(cart) == cart

\* cartSchema.pre("save"): totals recomputed from the lines.
PreSave(cart) ==
  IF Len(cart.items) > 0
    THEN [cart EXCEPT !.total_items = SumQuantity(cart.items),
                      !.total_amount = SumAmount(cart.items)]
    ELSE [cart EXCEPT !.total_items = 0, !.total_amount = 0]

\* Schema validation run by save(): line quantity min 1, notes maxLength.
Validates(cart) ==
  /\ \A i \in 1..Len(cart.items) : cart.items[i].quantity >= 1
  /\ cart.notes <= NotesMaxLength
  /\ cart.admin_notes <= NotesMaxLength

\* new Cart({ user_id }): schema defaults.
NewCart(u) ==
  [user_id |-> u, items |-> <<>>, status |-> "active",
   total_amount |-> 0, total_items |-> 0,
   notes |-> NoNotes, admin_notes |-> NoNotes,
   approved_by |-> NoUser, approved_at |-> NoDate,
   rejected_by |-> NoUser, rejected_at |-> NoDate,
   submitted_at |-> NoDate]

\* The collection after cart.save() of document id (id = Len + 1: an insert).
Saved(id, cart) ==
  IF id = Len(carts) + 1 THEN Append(carts, PreSave(cart))
  ELSE [carts EXCEPT ![id] = PreSave(cart)]

\* Cart.getUserActiveCart(userId): id of the first cart of the user with
\* status active, 0 for null.
ActiveIds(u) ==
  {i \in 1..Len(carts) : carts[i].user_id = u /\ carts[i].status = "active"}

\* Mutant of getUserActiveCart: the query leaves out the status, so it finds
\* the user's first cart whatever its status.
getUserActiveCartAnyStatus(u) ==
  LET mine == {i \in 1..Len(carts) : carts[i].user_id = u}
  IN IF mine = {} THEN 0 ELSE CHOOSE i \in mine : \A j \in mine : i <= j

\* Mutant of getUserActiveCart: the query matches no cart.
getUserActiveCartFindsNone(u) == 0

getUserActiveCart(u) ==
  IF ActiveIds(u) = {} THEN 0
  ELSE CHOOSE i \in ActiveIds(u) : \A j \in ActiveIds(u) : i <= j

canBeModified(cart) == cart.status = "active"

\* Mutants of canBeProcessed: a guard that only refuses approved carts, and a
\* guard that refuses none.
canBeProcessedUnlessApproved(cart) == cart.status # "approved"

canBeProcessedAlways(cart) == TRUE

canBeProcessed(cart) == cart.status = "pending"

Response(op, code, msg) == [op |-> op, code |-> code, msg |-> msg]

\* resp holds the answer to the last cart, group or image request; a product
\* or category request and the passing of time clear it.
NoResponse == Response("none", 0, "none")

(* -------------------------------- Group ------------------------------- *)

\* A group id with no document (never created, or deleted).
NoGroup ==
  [exists |-> FALSE, is_private |-> FALSE, is_active |-> FALSE,
   approval_status |-> "pending", created_by |-> NoUser, group_admin |-> NoUser,
   members_count |-> 0, joined_users |-> <<>>, service_id |-> NoService,
   name |-> NoName, slug |-> NoName]

\* Group.create({...}) of createGroup: the document a user's request creates,
\* before the pre("save") hook gives it its slug.
NewGroup(userId, is_private, service_id, name) ==
  [exists |-> TRUE, is_private |-> is_private, is_active |-> FALSE,
   approval_status |-> "pending", created_by |-> userId, group_admin |-> userId,
   members_count |-> 0, joined_users |-> <<>>, service_id |-> service_id,
   name |-> name, slug |-> NoName]

\* groupSchema.pre("save") on document g of the collection: a new or renamed
\* group gets the first free slug of its name.
groupPreSave(collection, g, before) ==
  IF ~before.exists \/ collection[g].name # before.name
    THEN [collection EXCEPT
            ![g].slug = uniqueSlug(SlugsOfOthers(collection, g),
                                   baseSlug(collection[g].name))]
    ELSE collection

\* Group.findOne({ name, service_id }) with _id other than g: some other
\* group of the service has the name.
groupNameExists(collection, g, name, service_id) ==
  \E k \in DOMAIN collection :
    /\ k # g /\ collection[k].exists
    /\ collection[k].name = name /\ collection[k].service_id = service_id

\* Mutant of findJoin: the search finds no record.
findJoinNone(joined_users, userId) == 0

\* joined_users.find(join => join.user_id.toString() === userId): the index of
\* the user's first join record, 0 when there is none (JS undefined).
findJoin(joined_users, userId) ==
  LET mine == {i \in 1..Len(joined_users) : joined_users[i].user_id = userId}
  IN IF mine = {} THEN 0 ELSE CHOOSE i \in mine : \A j \in mine : i <= j

\* joined_users.filter(join => join.status === "approved").length
approvedCount(joined_users) ==
  Cardinality({i \in 1..Len(joined_users) : joined_users[i].status = "approved"})

\* Mutant of isGroupAdmin: a system admin passes too.
isGroupAdminOrSystemAdmin(group, userId) ==
  group.group_admin = userId \/ userId \in Admins

\* group.group_admin.toString() === userId
isGroupAdmin(group, userId) == group.group_admin = userId

(* ------------------------------- Service ------------------------------ *)

\* A service id with no document.
NoServiceDoc ==
  [exists |-> FALSE, is_active |-> FALSE, total_groups |-> 0,
   total_members |-> 0, title |-> NoName, slug |-> NoName]

\* Service.create({...}) of createService, before the pre("save") hook gives
\* it its slug.
NewService(title) ==
  [exists |-> TRUE, is_active |-> TRUE, total_groups |-> 0, total_members |-> 0,
   title |-> title, slug |-> NoName]

\* serviceSchema.pre("save") on document s of the collection: a new or
\* retitled service gets the first free slug of its title.
servicePreSave(collection, s, before) ==
  IF ~before.exists \/ collection[s].title # before.title
    THEN [collection EXCEPT
            ![s].slug = uniqueSlug(SlugsOfOthers(collection, s),
                                   baseSlug(collection[s].title))]
    ELSE collection

\* Service.findOne({ title }) / Blog.findOne({ title }) with _id other than
\* id: some other document of the collection has the title.
titleExists(collection, id, title) ==
  \E k \in DOMAIN collection :
    k # id /\ collection[k].exists /\ collection[k].title = title

\* A service as the admin created it: active, with the schema's default counts.
SeedService(s) ==
  [NewService(NameOf(s)) EXCEPT !.slug = baseSlug(NameOf(s))]

(* -------------------------------- Blog -------------------------------- *)

\* A blog id with no document.
NoBlog == [exists |-> FALSE, title |-> NoName, slug |-> NoName]

\* Blog.create({...}) of createBlog, before the pre("save") hook gives it its
\* slug.
NewBlog(title) == [exists |-> TRUE, title |-> title, slug |-> NoName]

\* blogSchema.pre("save") on document b of the collection.
blogPreSave(collection, b, before) ==
  IF ~before.exists \/ collection[b].title # before.title
    THEN [collection EXCEPT
            ![b].slug = uniqueSlug(SlugsOfOthers(collection, b),
                                   baseSlug(collection[b].title))]
    ELSE collection

\* The service createBlog attaches every blog to (a fixed id in the code).
DefaultService == "s1"

\* The groups updateCounts queries: those of the service that are active and
\* approved.
CountedGroups(grps, service_id) ==
  {g \in GroupIds : /\ grps[g].exists /\ grps[g].service_id = service_id
                    /\ grps[g].is_active /\ grps[g].approval_status = "approved"}

\* groups.reduce((sum, group) => sum + group.members_count, 0)
RECURSIVE SumMembers(_, _)
SumMembers(grps, S) ==
  IF S = {} THEN 0
  ELSE LET g == CHOOSE x \in S : TRUE
       IN grps[g].members_count + SumMembers(grps, S \ {g})

\* Mutant of updateCounts: the queries leave out the approval status and the
\* active flag.
updateCountsOfAllGroups(service, grps, service_id) ==
  LET all == {g \in GroupIds : grps[g].exists /\ grps[g].service_id = service_id}
  IN [service EXCEPT !.total_groups = Cardinality(all),
                     !.total_members = SumMembers(grps, all)]

\* serviceSchema.methods.updateCounts over the groups collection grps.
updateCounts(service, grps, service_id) ==
  [service EXCEPT
     !.total_groups = Cardinality(CountedGroups(grps, service_id)),
     !.total_members = SumMembers(grps, CountedGroups(grps, service_id))]

\* The group hooks post("save"), post("findOneAndUpdate") and
\* post("findOneAndDelete") for a written or deleted document of service
\* service_id, with grps the collection after the write: the services
\* collection once the owning service, if there is one, has updated its counts.
postGroupHook(grps, service_id) ==
  IF service_id \in ServiceIds /\ services[service_id].exists
    THEN [services EXCEPT ![service_id] = updateCounts(@, grps, service_id)]
    ELSE services

(* -------------------------------- User -------------------------------- *)

\* The ids of the users collection: the customers and the system admin.
Accounts == Actors

\* A path parameter that is not 24 hexadecimal digits.
BadId == "bad"

\* role: enum of the user schema.
Roles == {"user", "admin"}

\* A user id with no document.
NoUserDoc ==
  [exists |-> FALSE, fullName |-> "none", username |-> "none", email |-> "none",
   phone |-> "none", role |-> "user", isActive |-> FALSE]

\* The users the server starts with: the system admin and the customers,
\* every account active (isActive: default true). A username, an email or a
\* phone is represented by a token: the one of an account is the account's id
\* until it is changed, "new" is held by nobody.
SeedUser(u) ==
  [exists |-> TRUE, fullName |-> u, username |-> u, email |-> u, phone |-> u,
   role |-> IF u \in Admins THEN "admin" ELSE "user", isActive |-> TRUE]

(* -------------------------------- Init -------------------------------- *)

Init ==
  /\ products = [p \in ProductIds |-> SeedProduct(p)]
  /\ requests = 0
  /\ carts = <<>>
  /\ now = 0
  /\ resp = NoResponse
  /\ groups = [g \in GroupIds |-> NoGroup]
  /\ categories = [c \in CategoryIds |-> SeedCategory(c)]
  /\ media = SeedMedia
  /\ services = [s \in ServiceIds |-> SeedService(s)]
  /\ blogs = [b \in BlogIds |-> NoBlog]
  /\ inflight = [r \in RequestIds |-> Idle]
  /\ users = [u \in Accounts |-> SeedUser(u)]
  /\ images = [i \in ImageIds |-> NoImage]

(* ------------------- comparing a line with a product id --------------- *)

\* product_id.toString() of a request's product id: the id's hex string.
ProductIdString(p) == <<"id", p>>

\* item.product_id.toString() on a cart read by getUserActiveCart: the path is
\* populated, so it holds the product document, whose toString() is the
\* inspect dump of the document and not the id; a line whose product is gone
\* holds null, and null.toString() throws a TypeError.
ItemProductString(item) ==
  IF products[item.product_id].exists
    THEN <<"document", item.product_id>>
    ELSE <<"TypeError">>

Throws == -1

\* items.findIndex / items.find by product id string: the index of the first
\* line whose string equals the id's, 0 when there is none (JS -1 / undefined),
\* Throws when a null line is met first.
findIndex(items, p) ==
  LET stops == {i \in 1..Len(items) :
                  \/ ItemProductString(items[i]) = <<"TypeError">>
                  \/ ItemProductString(items[i]) = ProductIdString(p)}
      first == CHOOSE i \in stops : \A j \in stops : i <= j
  IN IF stops = {} THEN 0
     ELSE IF ItemProductString(items[first]) = <<"TypeError">> THEN Throws
     ELSE first

\* items.filter(item => item.product_id.toString() !== productId.toString())
RECURSIVE filterOut(_, _)
filterOut(items, p) ==
  IF items = <<>> THEN <<>>
  ELSE IF ItemProductString(items[1]) # ProductIdString(p)
    THEN <<items[1]>> \o filterOut(Tail(items), p)
    ELSE filterOut(Tail(items), p)

filterThrows(items) ==
  \E i \in 1..Len(items) : ItemProductString(items[i]) = <<"TypeError">>

(* ----------------------------- getUserCart ---------------------------- *)

\* Mutant of validItems: a kept line takes the product's current price.
RECURSIVE validItemsRepriced(_)
validItemsRepriced(items) ==
  IF items = <<>> THEN <<>>
  ELSE
    LET item == [items[1] EXCEPT
                   !.price_at_time = PopulateFull(items[1].product_id).price]
        product == PopulateFull(item.product_id)
        rest == validItemsRepriced(Tail(items))
    IN IF product.exists /\ product.is_active /\ ~is_expired(product)
         THEN IF item.quantity <= product.quantity
                THEN <<item>> \o rest
                ELSE IF product.quantity > 0
                  THEN <<[item EXCEPT !.quantity = product.quantity]>> \o rest
                  ELSE rest
         ELSE rest

\* Mutant of validItems: a line above the stock is kept as it is.
RECURSIVE validItemsNoClamp(_)
validItemsNoClamp(items) ==
  IF items = <<>> THEN <<>>
  ELSE
    LET item == items[1]
        product == PopulateFull(item.product_id)
        rest == validItemsNoClamp(Tail(items))
    IN IF product.exists /\ product.is_active /\ ~is_expired(product)
         THEN IF item.quantity <= product.quantity \/ product.quantity > 0
                THEN <<item>> \o rest
                ELSE rest
         ELSE rest

\* The validItems the loop of getUserCart collects.
RECURSIVE validItems(_)
validItems(items) ==
  IF items = <<>> THEN <<>>
  ELSE
    LET item == items[1]
        product == PopulateFull(item.product_id)
        rest == validItems(Tail(items))
    IN IF product.exists /\ product.is_active /\ ~is_expired(product)
         THEN IF item.quantity <= product.quantity
                THEN <<item>> \o rest
                ELSE IF product.quantity > 0
                  THEN <<[item EXCEPT !.quantity = product.quantity]>> \o rest
                  ELSE rest
         ELSE rest

\* The hasChanges flag of the same loop.
hasChanges(items) ==
  \E i \in 1..Len(items) :
    LET product == PopulateFull(items[i].product_id)
    IN ~(/\ product.exists /\ product.is_active /\ ~is_expired(product)
         /\ items[i].quantity <= product.quantity)

getUserCart(u) ==
  LET existing == getUserActiveCart(u)
      id == IF existing = 0 THEN Len(carts) + 1 ELSE existing
      cart == IF existing = 0 THEN PreSave(NewCart(u)) ELSE carts[existing]
      created == IF existing = 0 THEN Saved(id, NewCart(u)) ELSE carts
      changed == hasChanges(cart.items)
      healed == [cart EXCEPT !.items = validItems(cart.items)]
  IN /\ IF changed /\ ~Validates(healed)
          THEN /\ carts' = created
               /\ resp' = Response("getUserCart", 500, "error")
          ELSE /\ carts' = IF changed
                             THEN [created EXCEPT ![id] = PreSave(healed)]
                             ELSE created
               /\ resp' = Response("getUserCart", 200,
                                   IF changed THEN "cart updated" ELSE "null")
     /\ UNCHANGED <<products, now, categories, images>>

(* ------------------------------ addToCart ----------------------------- *)

\* cartSchema.methods.addItem, before its save(): the lines after the add.
addItem(items, p, quantity, priceAtTime) ==
  LET existingItemIndex == findIndex(items, p)
  IN IF existingItemIndex > 0
       THEN [items EXCEPT ![existingItemIndex].quantity = @ + quantity]
       ELSE Append(items, [product_id |-> p, quantity |-> quantity,
                           price_at_time |-> priceAtTime])

addToCart(u, p, quantity) ==
  LET product == findProduct(p)
      existing == getUserActiveCart(u)
      id == IF existing = 0 THEN Len(carts) + 1 ELSE existing
      cart == IF existing = 0 THEN NewCart(u) ELSE carts[existing]
      existingItem == findIndex(cart.items, p)
      currentQuantityInCart ==
        IF existingItem > 0 THEN cart.items[existingItem].quantity ELSE 0
      totalRequestedQuantity == currentQuantityInCart + quantity
      added == [cart EXCEPT !.items = addItem(cart.items, p, quantity, product.price)]
      Reject(code, msg) == /\ carts' = carts
                           /\ resp' = Response("addToCart", code, msg)
  IN /\ IF ~product.exists THEN Reject(404, "product not found")
        ELSE IF ~product.is_active THEN Reject(400, "product not active")
        ELSE IF is_expired(product) THEN Reject(400, "product expired")
        ELSE IF product.quantity < quantity THEN Reject(400, "only n in stock")
        ELSE IF existingItem = Throws THEN Reject(500, "error")
        ELSE IF totalRequestedQuantity > product.quantity
          THEN Reject(400, "only n more available")
        ELSE IF ~Validates(added) THEN Reject(500, "error")
        ELSE /\ carts' = Saved(id, added)
             /\ resp' = Response("addToCart", 200, "item added")
     /\ UNCHANGED <<products, now, categories, images>>

(* ---------------------- updateCartItem / removeFromCart --------------- *)

\* cartSchema.methods.updateItemQuantity, before its save().
updateItemQuantity(items, p, newQuantity) ==
  LET itemIndex == findIndex(items, p)
  IN IF itemIndex > 0
       THEN IF newQuantity <= 0
              THEN SubSeq(items, 1, itemIndex - 1)
                     \o SubSeq(items, itemIndex + 1, Len(items))
              ELSE [items EXCEPT ![itemIndex].quantity = newQuantity]
       ELSE items

updateCartItem(u, p, quantity) ==
  LET id == getUserActiveCart(u)
      cart == carts[id]
      product == findProduct(p)
      removed == [cart EXCEPT !.items = filterOut(cart.items, p)]
      updated == [cart EXCEPT !.items = updateItemQuantity(cart.items, p, quantity)]
      Reject(code, msg) == /\ carts' = carts
                           /\ resp' = Response("updateCartItem", code, msg)
  IN /\ IF id = 0 THEN Reject(404, "cart not found")
        ELSE IF ~canBeModified(cart) THEN Reject(400, "cannot be modified")
        ELSE IF quantity <= 0
          THEN IF filterThrows(cart.items) \/ ~Validates(removed)
                 THEN Reject(500, "error")
                 ELSE /\ carts' = Saved(id, removed)
                      /\ resp' = Response("updateCartItem", 200, "item removed")
        ELSE IF ~product.exists THEN Reject(404, "product not found")
        ELSE IF quantity > product.quantity THEN Reject(400, "only n in stock")
        ELSE IF findIndex(cart.items, p) = Throws \/ ~Validates(updated)
          THEN Reject(500, "error")
        ELSE /\ carts' = Saved(id, updated)
             /\ resp' = Response("updateCartItem", 200, "item updated")
     /\ UNCHANGED <<products, now, categories, images>>

removeFromCart(u, p) ==
  LET id == getUserActiveCart(u)
      cart == carts[id]
      removed == [cart EXCEPT !.items = filterOut(cart.items, p)]
      Reject(code, msg) == /\ carts' = carts
                           /\ resp' = Response("removeFromCart", code, msg)
  IN /\ IF id = 0 THEN Reject(404, "cart not found")
        ELSE IF ~canBeModified(cart) THEN Reject(400, "cannot be modified")
        ELSE IF filterThrows(cart.items) \/ ~Validates(removed)
          THEN Reject(500, "error")
        ELSE /\ carts' = Saved(id, removed)
             /\ resp' = Response("removeFromCart", 200, "item removed")
     /\ UNCHANGED <<products, now, categories, images>>

clearCart(u) ==
  LET id == getUserActiveCart(u)
      cart == carts[id]
      cleared == [cart EXCEPT !.items = <<>>]
      Reject(code, msg) == /\ carts' = carts
                           /\ resp' = Response("clearCart", code, msg)
  IN /\ IF id = 0 THEN Reject(404, "cart not found")
        ELSE IF ~canBeModified(cart) THEN Reject(400, "cannot be modified")
        ELSE IF ~Validates(cleared) THEN Reject(500, "error")
        ELSE /\ carts' = Saved(id, cleared)
             /\ resp' = Response("clearCart", 200, "cart cleared")
     /\ UNCHANGED <<products, now, categories, images>>

(* ------------------------- submitCart / cancelCart -------------------- *)

\* Mutant of SubmitLineFails: the stock of a line's product is not compared.
SubmitLineFailsIgnoresStock(item) ==
  LET product == findProduct(item.product_id)
  IN ~product.exists \/ ~product.is_active \/ is_expired(product)

\* The revalidation loop of submitCart: each line's product is read again by
\* Product.findById (all fields).
SubmitLineFails(item) ==
  LET product == findProduct(item.product_id)
  IN \/ ~product.exists \/ ~product.is_active \/ is_expired(product)
     \/ item.quantity > product.quantity

\* Mutant of submitForApproval: submitted_at is not stamped.
submitForApprovalNoStamp(cart, notes) ==
  [cart EXCEPT !.status = "pending", !.notes = notes]

\* cartSchema.methods.submitForApproval, before its save().
submitForApproval(cart, notes) ==
  [cart EXCEPT !.status = "pending", !.notes = notes, !.submitted_at = now]

submitCart(u, notes) ==
  LET id == getUserActiveCart(u)
      cart == carts[id]
      submitted == submitForApproval(cart, notes)
      Reject(code, msg) == /\ carts' = carts
                           /\ resp' = Response("submitCart", code, msg)
  IN /\ IF id = 0 THEN Reject(404, "cart not found")
        ELSE IF Len(cart.items) = 0 THEN Reject(400, "empty cart")
        ELSE IF ~canBeModified(cart) THEN Reject(400, "cannot be submitted")
        ELSE IF \E i \in 1..Len(cart.items) : SubmitLineFails(cart.items[i])
          THEN Reject(400, "line not available")
        ELSE IF ~Validates(submitted) THEN Reject(500, "error")
        ELSE /\ carts' = Saved(id, submitted)
             /\ resp' = Response("submitCart", 200, "cart submitted")
     /\ UNCHANGED <<products, now, categories, images>>

\* Mutant of cancelCartDoc: the cancelled cart is emptied as well.
cancelCartDocEmpties(cart) == [cart EXCEPT !.status = "cancelled", !.items = <<>>]

\* cartSchema.methods.cancelCart, before its save().
cancelCartDoc(cart) == [cart EXCEPT !.status = "cancelled"]

cancelCart(u, id) ==
  LET cart == carts[id]
      Reject(code, msg) == /\ carts' = carts
                           /\ resp' = Response("cancelCart", code, msg)
  IN /\ IF id > Len(carts) THEN Reject(404, "cart not found")
        ELSE IF cart.user_id # u THEN Reject(403, "not your cart")
        ELSE IF cart.status = "cancelled" THEN Reject(400, "already cancelled")
        ELSE IF cart.status = "approved" THEN Reject(400, "cannot cancel approved")
        ELSE IF ~Validates(cancelCartDoc(cart)) THEN Reject(500, "error")
        ELSE /\ carts' = Saved(id, cancelCartDoc(cart))
             /\ resp' = Response("cancelCart", 200, "cart cancelled")
     /\ UNCHANGED <<products, now, categories, images>>

(* ------------------------- approveCart / rejectCart ------------------- *)

\* The revalidation loop of approveCart: each line's product as populated by
\* the handler's own query.
ApproveLineFails(item) ==
  LET product == PopulateNamePriceQuantity(item.product_id)
  IN \/ ~product.exists \/ ~product.is_active \/ is_expired(product)
     \/ item.quantity > product.quantity

\* cartSchema.methods.approveCart, before its save().
approveCartDoc(cart, adminId, adminNotes) ==
  [cart EXCEPT !.status = "approved", !.admin_notes = adminNotes,
               !.approved_by = adminId, !.approved_at = now]

\* Mutant of rejectCartDoc: the status assigned is that of an approval.
rejectCartDocApproves(cart, adminId, adminNotes) ==
  [cart EXCEPT !.status = "approved", !.admin_notes = adminNotes,
               !.rejected_by = adminId, !.rejected_at = now]

\* cartSchema.methods.rejectCart, before its save().
rejectCartDoc(cart, adminId, adminNotes) ==
  [cart EXCEPT !.status = "rejected", !.admin_notes = adminNotes,
               !.rejected_by = adminId, !.rejected_at = now]

\* productSchema.methods.reduceQuantity on the product of each line of items,
\* as the loop approveCart keeps in a comment would call it.
RECURSIVE reduceQuantity(_, _)
reduceQuantity(prods, items) ==
  IF items = <<>> THEN prods
  ELSE LET p == Head(items).product_id
           amount == Head(items).quantity
       IN reduceQuantity(
            IF prods[p].quantity >= amount
              THEN [prods EXCEPT ![p].quantity = @ - amount] ELSE prods,
            Tail(items))

\* Mutant of approveCart: the handler populates the fields its revalidation
\* reads and the loop over reduceQuantity is live.
approveCartReducesStock(adminId, id, admin_notes) ==
  LET cart == carts[id]
      approved == approveCartDoc(cart, adminId, admin_notes)
      Reject(code, msg) == /\ carts' = carts /\ products' = products
                           /\ resp' = Response("approveCart", code, msg)
  IN /\ IF id > Len(carts) THEN Reject(404, "cart not found")
        ELSE IF ~canBeProcessed(cart) THEN Reject(400, "cannot be processed")
        ELSE IF \E i \in 1..Len(cart.items) : SubmitLineFails(cart.items[i])
          THEN Reject(400, "line not available")
        ELSE IF ~Validates(approved) THEN Reject(500, "error")
        ELSE /\ carts' = Saved(id, approved)
             /\ products' = reduceQuantity(products, cart.items)
             /\ resp' = Response("approveCart", 200, "cart approved")
     /\ UNCHANGED <<now, categories, images>>

approveCart(adminId, id, admin_notes) ==
  LET cart == carts[id]
      approved == approveCartDoc(cart, adminId, admin_notes)
      Reject(code, msg) == /\ carts' = carts
                           /\ resp' = Response("approveCart", code, msg)
  IN /\ IF id > Len(carts) THEN Reject(404, "cart not found")
        ELSE IF ~canBeProcessed(cart) THEN Reject(400, "cannot be processed")
        ELSE IF \E i \in 1..Len(cart.items) : ApproveLineFails(cart.items[i])
          THEN Reject(400, "line not available")
        ELSE IF ~Validates(approved) THEN Reject(500, "error")
        ELSE /\ carts' = Saved(id, approved)
             /\ resp' = Response("approveCart", 200, "cart approved")
     /\ UNCHANGED <<products, now, categories, images>>

rejectCart(adminId, id, admin_notes) ==
  LET cart == carts[id]
      rejected == rejectCartDoc(cart, adminId, admin_notes)
      Reject(code, msg) == /\ carts' = carts
                           /\ resp' = Response("rejectCart", code, msg)
  IN /\ IF id > Len(carts) THEN Reject(404, "cart not found")
        ELSE IF ~canBeProcessed(cart) THEN Reject(400, "cannot be processed")
        ELSE IF ~Validates(rejected) THEN Reject(500, "error")
        ELSE /\ carts' = Saved(id, rejected)
             /\ resp' = Response("rejectCart", 200, "cart rejected")
     /\ UNCHANGED <<products, now, categories, images>>

(* --------------------------- the product catalogue -------------------- *)

\* updateProduct: the fields of the Product document the handler assigns from
\* the request body; a field the body leaves out keeps its value.
\* When the body names another category than the product's, the handler checks
\* the new category and moves the counts (old category decremented when it
\* exists, new one incremented) before it assigns the fields and saves the
\* product; a save that fails answers 500 and leaves the product as it was.
updateProduct(p, body) ==
  LET product == products[p]
      moves == "category_id" \in DOMAIN body /\ body.category_id # product.category_id
      newCategory == categories[body.category_id]
      moved == [categories EXCEPT
                  ![product.category_id] = IF @.exists THEN decrementCount(@) ELSE @,
                  ![body.category_id] = incrementCount(@)]
      assigned ==
        [product EXCEPT
           !.name = IF "name" \in DOMAIN body THEN body.name ELSE @,
           !.category_id = IF "category_id" \in DOMAIN body THEN body.category_id ELSE @,
           !.price = IF "price" \in DOMAIN body THEN body.price ELSE @,
           !.quantity = IF "quantity" \in DOMAIN body THEN body.quantity ELSE @,
           !.is_active = IF "is_active" \in DOMAIN body THEN body.is_active ELSE @,
           !.expiration_date = IF "expiration_date" \in DOMAIN body
                                 THEN body.expiration_date ELSE @]
  IN /\ IF ~product.exists
          THEN UNCHANGED <<products, categories>>
        ELSE IF moves /\ (~newCategory.exists \/ ~newCategory.is_active)
          THEN UNCHANGED <<products, categories>>
        ELSE /\ categories' = IF moves THEN moved ELSE categories
             /\ products' = IF ProductSaves(body)
                               THEN productPreSave(
                                      [products EXCEPT ![p] = assigned], p, product)
                               ELSE products
     /\ resp' = NoResponse
     /\ UNCHANGED <<carts, now, images, media>>

toggleProductStatus(p) ==
  /\ IF ~products[p].exists
       THEN products' = products
       ELSE products' = [products EXCEPT ![p].is_active = ~@]
  /\ resp' = NoResponse
  /\ UNCHANGED <<carts, now, categories, images, media>>

\* deleteProduct: ProductImage.deleteMany({ product_id }), the category's
\* decrementCount when the category exists, Product.findByIdAndDelete(id).
deleteProduct(p) ==
  /\ IF ~products[p].exists
       THEN UNCHANGED <<products, categories, images>>
       ELSE /\ images' = [i \in ImageIds |->
                            IF i \in ImagesOf(images, p) THEN NoImage ELSE images[i]]
            /\ categories' = [categories EXCEPT ![products[p].category_id] =
                                IF @.exists THEN decrementCount(@) ELSE @]
            /\ products' = [products EXCEPT ![p] = NoProduct]
  /\ resp' = NoResponse
  /\ UNCHANGED <<carts, now, media>>

\* Time passes between two requests.
Tick ==
  /\ now < MaxDay
  /\ now' = now + 1
  /\ resp' = NoResponse
  /\ UNCHANGED <<products, carts, requests, groups, categories, images, media,
               services, blogs, inflight, users>>

(* ------------------------------- groups ------------------------------- *)

\* createGroup for a group id the collection does not hold: the service
\* exists and is active, no group of the service has the name; Group.create
\* runs the pre("save") and post("save") hooks. The creator becomes the group
\* admin.
createGroup(userId, g, is_private, service_id, name) ==
  LET created ==
        groupPreSave([groups EXCEPT
                        ![g] = NewGroup(userId, is_private, service_id, name)],
                     g, groups[g])
      Reject(code, msg) == /\ UNCHANGED <<groups, services>>
                           /\ resp' = Response("createGroup", code, msg)
  IN /\ ~groups[g].exists
     /\ IF ~(services[service_id].exists /\ services[service_id].is_active)
          THEN Reject(404, "service not found")
        ELSE IF groupNameExists(groups, g, name, service_id)
          THEN Reject(400, "name exists in service")
        ELSE /\ groups' = created
             /\ services' = postGroupHook(created, service_id)
             /\ resp' = Response("createGroup", 201, "group created")

\* updateGroup with is_private and, unless name is NoName, a name in the
\* body: Group.findByIdAndUpdate, which runs the post("findOneAndUpdate") hook
\* and no pre("save") hook.
updateGroup(userId, g, name, is_private) ==
  LET group == groups[g]
      updated == [groups EXCEPT ![g].name = IF name # NoName THEN name ELSE @,
                                ![g].is_private = is_private]
      Reject(code, msg) == /\ UNCHANGED <<groups, services>>
                           /\ resp' = Response("updateGroup", code, msg)
  IN IF ~group.exists THEN Reject(404, "group not found")
     ELSE IF ~(group.group_admin = userId \/ userId \in Admins)
       THEN Reject(403, "not authorized")
     ELSE IF /\ name # NoName /\ name # group.name
             /\ groupNameExists(groups, g, name, group.service_id)
       THEN Reject(400, "name exists in service")
     ELSE /\ groups' = updated
          /\ services' = postGroupHook(updated, group.service_id)
          /\ resp' = Response("updateGroup", 200, "group updated")

\* deleteGroup: Group.findByIdAndDelete, which runs the
\* post("findOneAndDelete") hook with the deleted document.
deleteGroup(userId, g) ==
  LET group == groups[g]
      deleted == [groups EXCEPT ![g] = NoGroup]
      Reject(code, msg) == /\ UNCHANGED <<groups, services>>
                           /\ resp' = Response("deleteGroup", code, msg)
  IN IF ~group.exists THEN Reject(404, "group not found")
     ELSE IF ~(group.group_admin = userId \/ userId \in Admins)
       THEN Reject(403, "not authorized")
     ELSE /\ groups' = deleted
          /\ services' = postGroupHook(deleted, group.service_id)
          /\ resp' = Response("deleteGroup", 200, "group deleted")

\* approveGroup (system admin): Group.findByIdAndUpdate.
approveGroup(g) ==
  LET approved == [groups EXCEPT ![g].approval_status = "approved",
                                 ![g].is_active = TRUE]
  IN IF ~groups[g].exists
       THEN /\ UNCHANGED <<groups, services>>
            /\ resp' = Response("approveGroup", 404, "group not found")
       ELSE /\ groups' = approved
            /\ services' = postGroupHook(approved, groups[g].service_id)
            /\ resp' = Response("approveGroup", 200, "group approved")

\* rejectGroup (system admin): Group.findByIdAndUpdate.
rejectGroup(g) ==
  LET rejected == [groups EXCEPT ![g].approval_status = "rejected",
                                 ![g].is_active = FALSE]
  IN IF ~groups[g].exists
       THEN /\ UNCHANGED <<groups, services>>
            /\ resp' = Response("rejectGroup", 404, "group not found")
       ELSE /\ groups' = rejected
            /\ services' = postGroupHook(rejected, groups[g].service_id)
            /\ resp' = Response("rejectGroup", 200, "group rejected")

joinGroup(userId, g) ==
  LET group == groups[g]
      existingJoin == findJoin(group.joined_users, userId)
      joinStatus == IF group.is_private THEN "pending" ELSE "approved"
      pushed == Append(group.joined_users,
                       [user_id |-> userId, status |-> joinStatus])
      saved == [groups EXCEPT
                  ![g].joined_users = pushed,
                  ![g].members_count =
                     IF joinStatus = "approved" THEN approvedCount(pushed) ELSE @]
      Reject(code, msg) == /\ UNCHANGED <<groups, services>>
                           /\ resp' = Response("joinGroup", code, msg)
  IN IF ~group.exists THEN Reject(404, "group not found")
     ELSE IF ~group.is_active \/ group.approval_status # "approved"
       THEN Reject(400, "not active or not approved")
     ELSE IF existingJoin # 0 THEN Reject(400, "already joined")
     ELSE /\ groups' = saved
          /\ services' = postGroupHook(saved, group.service_id)
          /\ resp' = Response("joinGroup", 200, joinStatus)

approveUserJoin(currentUserId, g, userId) ==
  LET group == groups[g]
      joinRequest == findJoin(group.joined_users, userId)
      approved == [group.joined_users EXCEPT ![joinRequest].status = "approved"]
      saved == [groups EXCEPT ![g].joined_users = approved,
                              ![g].members_count = approvedCount(approved)]
      Reject(code, msg) == /\ UNCHANGED <<groups, services>>
                           /\ resp' = Response("approveUserJoin", code, msg)
  IN IF ~group.exists THEN Reject(404, "group not found")
     ELSE IF ~isGroupAdmin(group, currentUserId) THEN Reject(403, "not authorized")
     ELSE IF joinRequest = 0 THEN Reject(404, "join request not found")
     ELSE IF group.joined_users[joinRequest].status = "approved"
       THEN Reject(400, "already approved")
     ELSE /\ groups' = saved
          /\ services' = postGroupHook(saved, group.service_id)
          /\ resp' = Response("approveUserJoin", 200, "user approved")

\* rejectUserJoin: the record's status is set and the group saved; members_count
\* is not assigned.
rejectUserJoin(currentUserId, g, userId) ==
  LET group == groups[g]
      joinRequest == findJoin(group.joined_users, userId)
      saved == [groups EXCEPT ![g].joined_users[joinRequest].status = "rejected"]
      Reject(code, msg) == /\ UNCHANGED <<groups, services>>
                           /\ resp' = Response("rejectUserJoin", code, msg)
  IN IF ~group.exists THEN Reject(404, "group not found")
     ELSE IF ~isGroupAdmin(group, currentUserId) THEN Reject(403, "not authorized")
     ELSE IF joinRequest = 0 THEN Reject(404, "join request not found")
     ELSE /\ groups' = saved
          /\ services' = postGroupHook(saved, group.service_id)
          /\ resp' = Response("rejectUserJoin", 200, "user rejected")

(* -------------------------------- Next -------------------------------- *)

\* Cart ids a request may name: those of the collection and one of no cart.
CartIds == 1..(Len(carts) + 1)

\* A request is served, from arrival to response, while the budget lasts.
Serve ==
  /\ requests < MaxRequests
  /\ requests' = requests + 1
  /\ UNCHANGED <<groups, media, services, blogs, inflight, users>>

GetUserCart == Serve /\ \E u \in Users : getUserCart(u)
AddToCart ==
  Serve /\ \E u \in Users, p \in ProductIds, q \in 1..MaxStock : addToCart(u, p, q)
UpdateCartItem ==
  Serve /\ \E u \in Users, p \in ProductIds, q \in 0..MaxStock :
             updateCartItem(u, p, q)
RemoveFromCart == Serve /\ \E u \in Users, p \in ProductIds : removeFromCart(u, p)
ClearCart == Serve /\ \E u \in Users : clearCart(u)
SubmitCart == Serve /\ \E u \in Users, n \in UserNotes : submitCart(u, n)
CancelCart == Serve /\ \E u \in Users, c \in CartIds : cancelCart(u, c)
ApproveCart ==
  Serve /\ \E a \in Admins, c \in CartIds, n \in AdminNotes : approveCart(a, c, n)
RejectCart ==
  Serve /\ \E a \in Admins, c \in CartIds, n \in AdminNotes : rejectCart(a, c, n)
UpdateProduct ==
  Serve /\ \E p \in ProductIds, body \in UpdateBodies : updateProduct(p, body)
ToggleProductStatus == Serve /\ \E p \in ProductIds : toggleProductStatus(p)
DeleteProduct == Serve /\ \E p \in ProductIds : deleteProduct(p)

Next ==
  \/ GetUserCart
  \/ AddToCart
  \/ UpdateCartItem
  \/ RemoveFromCart
  \/ ClearCart
  \/ SubmitCart
  \/ CancelCart
  \/ ApproveCart
  \/ RejectCart
  \/ UpdateProduct
  \/ ToggleProductStatus
  \/ DeleteProduct
  \/ Tick

Spec == Init /\ [][Next]_vars

(* ----------------------- the group join workflow ---------------------- *)

\* A group request is served, from arrival to response.
ServeGroup ==
  /\ requests < MaxGroupRequests
  /\ requests' = requests + 1
  /\ UNCHANGED <<products, carts, now, categories, images, media, blogs, inflight,
               users>>

CreateGroup ==
  ServeGroup /\ \E u \in Actors, g \in GroupIds, b \in BOOLEAN, s \in ServiceIds :
                  createGroup(u, g, b, s, NameOf(g))
UpdateGroup ==
  ServeGroup /\ \E u \in Actors, g \in GroupIds, b \in BOOLEAN :
                  updateGroup(u, g, NoName, b)
DeleteGroup == ServeGroup /\ \E u \in Actors, g \in GroupIds : deleteGroup(u, g)
ApproveGroup == ServeGroup /\ \E g \in GroupIds : approveGroup(g)
RejectGroup == ServeGroup /\ \E g \in GroupIds : rejectGroup(g)
JoinGroup == ServeGroup /\ \E u \in Actors, g \in GroupIds : joinGroup(u, g)
ApproveUserJoin ==
  ServeGroup /\ \E c \in Actors, g \in GroupIds, u \in Actors : approveUserJoin(c, g, u)
RejectUserJoin ==
  ServeGroup /\ \E c \in Actors, g \in GroupIds, u \in Actors : rejectUserJoin(c, g, u)

NextGroups ==
  \/ CreateGroup
  \/ UpdateGroup
  \/ DeleteGroup
  \/ ApproveGroup
  \/ RejectGroup
  \/ JoinGroup
  \/ ApproveUserJoin
  \/ RejectUserJoin

SpecGroups == Init /\ [][NextGroups]_vars

(* ============================== claims ================================ *)

\* A line can be bought now: its product exists, is active, is not expired
\* and has stock for the line's quantity.
LineAvailable(item) ==
  /\ products[item.product_id].exists
  /\ products[item.product_id].is_active
  /\ ~is_expired(products[item.product_id])
  /\ products[item.product_id].quantity >= item.quantity

AllLinesAvailable(cart) ==
  \A k \in 1..Len(cart.items) : LineAvailable(cart.items[k])

\* Quantity of product p held by the lines of a cart.
RECURSIVE QuantityOf(_, _)
QuantityOf(items, p) ==
  IF items = <<>> THEN 0
  ELSE (IF items[1].product_id = p THEN items[1].quantity ELSE 0)
         + QuantityOf(Tail(items), p)

QuantityInActiveCart(u, p) ==
  IF getUserActiveCart(u) = 0 THEN 0
  ELSE QuantityOf(carts[getUserActiveCart(u)].items, p)

\* C1: every persisted cart has total_amount = the sum over its lines of
\* price_at_time * quantity and total_items = the sum of the quantities, and an
\* empty cart has both totals 0, in every state a cart request leaves.
C1_TotalsMatchLines ==
  \A i \in 1..Len(carts) :
    /\ carts[i].total_amount = SumAmount(carts[i].items)
    /\ carts[i].total_items = SumQuantity(carts[i].items)
    /\ carts[i].items = <<>> =>
         carts[i].total_amount = 0 /\ carts[i].total_items = 0

\* A cart of two lines at different prices has been saved.
C1_Witness ==
  /\ resp.code = 200
  /\ \E i \in 1..Len(carts) :
       /\ Len(carts[i].items) = 2
       /\ carts[i].items[1].price_at_time # carts[i].items[2].price_at_time
       /\ carts[i].total_amount = 1 * 1 + MaxPrice * MaxStock

\* C2: with requests served one at a time, each user has at most one cart
\* with status active.
C2_AtMostOneActiveCart ==
  \A u \in Users : Cardinality(ActiveIds(u)) <= 1

\* A user got a second cart after the first left the active status.
C2_Witness ==
  \E u \in Users :
    /\ Cardinality({i \in 1..Len(carts) : carts[i].user_id = u}) >= 2
    /\ Cardinality(ActiveIds(u)) = 1
    /\ resp.op \in {"getUserCart", "addToCart"}

\* C3 (as claimed): approveCart on a pending cart whose every line refers to
\* an existing, active, unexpired product with enough stock succeeds: status
\* approved, approved_by the admin, approved_at set, admin notes stored.
C3_ApproveValidPendingSucceeds ==
  [][\A a \in Admins, c \in 1..Len(carts), n \in AdminNotes :
       (/\ approveCart(a, c, n)
        /\ n <= NotesMaxLength
        /\ carts[c].status = "pending"
        /\ AllLinesAvailable(carts[c]))
       => (/\ resp'.code = 200
           /\ carts'[c].status = "approved"
           /\ carts'[c].approved_by = a
           /\ carts'[c].approved_at = now
           /\ carts'[c].admin_notes = n)]_vars

\* C4: approveCart and rejectCart on a cart whose status is not pending fail
\* and leave every cart document unchanged.
C4_ProcessNonPendingFails ==
  [][\A a \in Admins, c \in 1..Len(carts), n \in AdminNotes :
       (/\ approveCart(a, c, n) \/ rejectCart(a, c, n)
        /\ carts[c].status # "pending")
       => (carts' = carts /\ resp'.code = 400)]_vars

\* An admin's approve or reject was refused for the status of the cart, on a
\* cart that was rejected or cancelled before.
C4_Witness ==
  /\ resp.op \in {"approveCart", "rejectCart"}
  /\ resp.msg = "cannot be processed"
  /\ \A i \in 1..Len(carts) : carts[i].status \in {"rejected", "cancelled"}
  /\ Len(carts) >= 1

\* C5: submitCart on the user's active cart fails when the cart has no line,
\* and succeeds when it has a line and every line is available; on success
\* the status is pending, submitted_at is set and the notes are stored.
C5_SubmitEmptyFailsValidSucceeds ==
  [][\A u \in Users, n \in UserNotes :
       (submitCart(u, n) /\ getUserActiveCart(u) # 0)
       => LET id == getUserActiveCart(u)
          IN /\ carts[id].items = <<>>
                  => (resp'.code = 400 /\ carts' = carts)
             /\ (carts[id].items # <<>> /\ AllLinesAvailable(carts[id]))
                  => (/\ resp'.code = 200
                      /\ carts' = [carts EXCEPT ![id].status = "pending",
                                                ![id].submitted_at = now,
                                                ![id].notes = n])]_vars

\* A cart of two lines was submitted.
C5_Witness ==
  /\ resp.op = "submitCart" /\ resp.code = 200
  /\ \E i \in 1..Len(carts) :
       /\ carts[i].status = "pending" /\ Len(carts[i].items) = 2
       /\ carts[i].submitted_at = now /\ carts[i].notes \in UserNotes

\* C6 (as claimed): addToCart of quantity q of product p is rejected whenever
\* the quantity of p already in the user's active cart plus q exceeds p's
\* stock, and the rejected call changes no cart and creates none.
C6_AddBeyondStockRejected ==
  [][\A u \in Users, p \in ProductIds, q \in 1..MaxStock :
       (/\ addToCart(u, p, q)
        /\ products[p].exists
        /\ QuantityInActiveCart(u, p) + q > products[p].quantity)
       => (resp'.code # 200 /\ carts' = carts)]_vars

\* The status changes the workflow allows, each with the request that makes it.
LegalStatusChange(from, to, op) ==
  \/ from = "active" /\ to = "pending" /\ op = "submitCart"
  \/ from = "pending" /\ to = "approved" /\ op = "approveCart"
  \/ from = "pending" /\ to = "rejected" /\ op = "rejectCart"
  \/ from \notin {"approved", "cancelled"} /\ to = "cancelled" /\ op = "cancelCart"

\* C7: every change of a cart's status is active to pending by submitCart,
\* pending to approved by approveCart, pending to rejected by rejectCart, or
\* to cancelled from a status other than approved and cancelled by cancelCart;
\* a cart is created active and no cart is ever removed.
C7_OnlyLegalStatusChanges ==
  [][/\ Len(carts') >= Len(carts)
     /\ \A i \in 1..Len(carts') :
          IF i <= Len(carts)
            THEN carts'[i].status # carts[i].status
                   => LegalStatusChange(carts[i].status, carts'[i].status, resp'.op)
            ELSE carts'[i].status = "active"]_vars

\* A submitted cart was rejected by the admin.
C7_Witness ==
  /\ resp.op = "rejectCart" /\ resp.code = 200
  /\ \E i \in 1..Len(carts) :
       carts[i].status = "rejected" /\ carts[i].submitted_at # NoDate

\* C8 (as claimed): approved, rejected and cancelled are terminal: once a cart
\* has one of these statuses no request changes its status.
C8_TerminalStatuses ==
  [][\A i \in 1..Len(carts) :
       carts[i].status \in {"approved", "rejected", "cancelled"}
         => carts'[i].status = carts[i].status]_vars

\* C8 (amended): approved and cancelled are terminal; the status of a rejected
\* cart changes only to cancelled, by the cancelCart of the cart's owner.
C8_TerminalExceptRejectedCancel ==
  [][\A i \in 1..Len(carts) :
       /\ carts[i].status \in {"approved", "cancelled"}
            => carts'[i].status = carts[i].status
       /\ (carts[i].status = "rejected" /\ carts'[i].status # "rejected")
            => (/\ carts'[i].status = "cancelled"
                /\ cancelCart(carts[i].user_id, i))]_vars

\* The owner cancelled a rejected cart, which keeps the rejection's record.
C8_Witness ==
  /\ resp.op = "cancelCart" /\ resp.code = 200
  /\ \E i \in 1..Len(carts) :
       carts[i].status = "cancelled" /\ carts[i].rejected_by \in Admins

\* C9: a submitCart or approveCart refused because some line is not available
\* (product missing, inactive, expired or stock below the line's quantity)
\* leaves every cart document unchanged, whichever lines passed before.
C9_RefusedRevalidationChangesNothing ==
  [][/\ \A u \in Users, n \in UserNotes :
          (/\ submitCart(u, n)
           /\ getUserActiveCart(u) # 0
           /\ ~AllLinesAvailable(carts[getUserActiveCart(u)]))
          => (resp'.code = 400 /\ carts' = carts)
     /\ \A a \in Admins, c \in 1..Len(carts), n \in AdminNotes :
          (/\ approveCart(a, c, n)
           /\ carts[c].status = "pending"
           /\ ~AllLinesAvailable(carts[c]))
          => (resp'.code = 400 /\ carts' = carts)]_vars

\* A submit was refused for a cart whose first line is available and whose
\* second line is not.
C9_Witness ==
  /\ resp.op = "submitCart" /\ resp.msg = "line not available"
  /\ \E i \in 1..Len(carts) :
       /\ carts[i].status = "active" /\ Len(carts[i].items) = 2
       /\ LineAvailable(carts[i].items[1])
       /\ ~LineAvailable(carts[i].items[2])
       /\ carts[i].notes = NoNotes /\ carts[i].submitted_at = NoDate

\* What the self-healing fetch is to leave of a cart's lines: a line whose
\* product is missing, inactive, expired or out of stock is dropped, a line
\* above the stock is cut to the stock, any other line is kept.
RECURSIVE HealedLines(_)
HealedLines(items) ==
  IF items = <<>> THEN <<>>
  ELSE LET l == items[1]
           pr == products[l.product_id]
       IN (IF pr.exists /\ pr.is_active /\ ~is_expired(pr) /\ pr.quantity >= 1
             THEN <<[l EXCEPT !.quantity =
                       IF l.quantity > pr.quantity THEN pr.quantity ELSE l.quantity]>>
             ELSE <<>>)
          \o HealedLines(Tail(items))

\* C10: after a successful getUserCart the user's active cart holds the healed
\* lines of the cart it found, each available with a quantity of at least 1,
\* and the response carries the cart-updated message exactly when a line was
\* dropped or cut.
C10_FetchHealsCart ==
  [][\A u \in Users :
       (getUserCart(u) /\ resp'.code = 200)
       => LET old == IF getUserActiveCart(u) = 0 THEN <<>>
                     ELSE carts[getUserActiveCart(u)].items
              id == IF getUserActiveCart(u) = 0 THEN Len(carts) + 1
                    ELSE getUserActiveCart(u)
          IN /\ Len(carts') >= id
             /\ carts'[id].user_id = u /\ carts'[id].status = "active"
             /\ carts'[id].items = HealedLines(old)
             /\ \A k \in 1..Len(carts'[id].items) :
                  /\ LineAvailable(carts'[id].items[k])
                  /\ carts'[id].items[k].quantity >= 1
             /\ (resp'.msg = "cart updated") <=> (HealedLines(old) # old)]_vars

\* A fetch changed the cart and left a line cut to its product's stock.
C10_Witness ==
  /\ resp.op = "getUserCart" /\ resp.msg = "cart updated"
  /\ \E i \in 1..Len(carts) :
       /\ carts[i].status = "active" /\ Len(carts[i].items) = 1
       /\ carts[i].items[1].quantity < MaxStock
       /\ carts[i].items[1].quantity = products[carts[i].items[1].product_id].quantity

\* The product and captured price of each line, in the order of the lines.
LineKeys(items) ==
  [k \in 1..Len(items) |-> <<items[k].product_id, items[k].price_at_time>>]

\* s is t with some elements left out.
RECURSIVE IsSubsequence(_, _)
IsSubsequence(s, t) ==
  IF s = <<>> THEN TRUE
  ELSE IF t = <<>> THEN FALSE
  ELSE IF s[1] = t[1] THEN IsSubsequence(Tail(s), Tail(t))
  ELSE IsSubsequence(s, Tail(t))

\* C11: a line's price_at_time is the product's price when the line was added
\* and never changes afterwards: in every step the lines of a cart keep their
\* product and price_at_time (lines may go, their order stays), except that an
\* addToCart may append one line, whose price_at_time is the price the product
\* has at that moment; a product's price edit, updateCartItem, the fetch,
\* submit, approve, reject and cancel alter no line's price_at_time.
C11_PriceAtTimeFrozen ==
  [][\A i \in 1..Len(carts') :
       LET old == IF i <= Len(carts) THEN LineKeys(carts[i].items) ELSE <<>>
           new == LineKeys(carts'[i].items)
       IN \/ IsSubsequence(new, old)
          \/ /\ resp'.op = "addToCart"
             /\ \E p \in ProductIds :
                  /\ new = Append(old, <<p, products[p].price>>)
                  /\ \E u \in Users, q \in 1..MaxStock : addToCart(u, p, q)]_vars

\* A fetch cut a line to the stock after the product's price was edited: the
\* line keeps the price captured when it was added.
C11_Witness ==
  /\ resp.op = "getUserCart" /\ resp.msg = "cart updated"
  /\ \E i \in 1..Len(carts) :
       /\ Len(carts[i].items) = 1
       /\ products[carts[i].items[1].product_id].exists
       /\ carts[i].items[1].price_at_time
            # products[carts[i].items[1].product_id].price

\* C12: with requests served one at a time, a cart whose status is not active
\* keeps its lines and totals in every step: addToCart, updateCartItem,
\* removeFromCart, clearCart and the fetch only modify an active cart.
C12_NonActiveCartFrozen ==
  [][\A i \in 1..Len(carts) :
       carts[i].status # "active"
         => /\ carts'[i].items = carts[i].items
            /\ carts'[i].total_amount = carts[i].total_amount
            /\ carts'[i].total_items = carts[i].total_items]_vars

\* The owner of a pending cart added a product: the line went to a new active
\* cart and the pending cart is as it was submitted.
C12_Witness ==
  /\ resp.op = "addToCart" /\ resp.code = 200
  /\ \E i, j \in 1..Len(carts) :
       /\ i < j /\ carts[i].user_id = carts[j].user_id
       /\ carts[i].status = "pending" /\ Len(carts[i].items) = 1
       /\ carts[j].status = "active" /\ Len(carts[j].items) = 1

\* C13: cancelCart by the cart's owner on a cart that is neither approved nor
\* cancelled sets the status to cancelled and changes nothing else; a call by
\* another user, or on an approved or cancelled cart, is refused and leaves
\* every cart unchanged.
C13_CancelOwnerOnly ==
  [][\A u \in Users, c \in 1..Len(carts) :
       cancelCart(u, c)
       => IF carts[c].user_id = u /\ carts[c].status \notin {"approved", "cancelled"}
            THEN /\ resp'.code = 200
                 /\ carts' = [carts EXCEPT ![c].status = "cancelled"]
            ELSE /\ resp'.code \in {400, 403}
                 /\ carts' = carts]_vars

\* A user's cancelCart on another user's pending cart was refused.
C13_Witness ==
  /\ resp.op = "cancelCart" /\ resp.code = 403
  /\ \E i \in 1..Len(carts) :
       carts[i].status = "pending" /\ Len(carts[i].items) >= 1

(* ------------------- products, images and categories ----------------- *)

\* createProduct with n uploaded files, for a product id the collection does
\* not hold: the category and the group are checked, the product is saved, the
\* images are inserted (the first one primary), the category is incremented.
createProduct(p, c, g, n, name) ==
  LET category == categories[c]
      group == groups[g]
  IN /\ ~products[p].exists
     /\ Len(FreshIds(images, n)) = n
     /\ IF \/ ~category.exists \/ ~category.is_active
           \/ ~group.exists \/ ~group.is_active
          THEN UNCHANGED <<products, categories, images>>
          ELSE /\ products' = productPreSave(
                                  [products EXCEPT ![p] = NewProduct(c, name)],
                                  p, products[p])
               /\ images' = insertMany(images, p, n, TRUE, 0)
               /\ categories' = [categories EXCEPT ![c] = incrementCount(@)]
     /\ resp' = NoResponse
     /\ UNCHANGED <<carts, now, media>>

addProductImages(p, n) ==
  LET currentImageCount == Cardinality(ImagesOf(images, p))
      Reject(code, msg) == /\ images' = images
                           /\ resp' = Response("addProductImages", code, msg)
  IN /\ Len(FreshIds(images, n)) = n
     /\ IF ~products[p].exists THEN Reject(404, "product not found")
        ELSE IF n = 0 THEN Reject(400, "no images provided")
        ELSE /\ images' = insertMany(images, p, n, currentImageCount = 0,
                                      currentImageCount)
             /\ resp' = Response("addProductImages", 201, "images added")
     /\ UNCHANGED <<products, categories, carts, now, media>>

\* Request bodies of updateProductImage: each names one field.
ImageBodies ==
  [{"is_active"} -> BOOLEAN] \cup [{"is_primary"} -> BOOLEAN]
    \cup [{"order"} -> 0..(MaxImages - 1)]

updateProductImage(p, i, body) ==
  LET image == images[i]
      assigned ==
        [image EXCEPT
           !.is_active = IF "is_active" \in DOMAIN body THEN body.is_active ELSE @,
           !.order = IF "order" \in DOMAIN body THEN body.order ELSE @,
           !.is_primary = IF "is_primary" \in DOMAIN body THEN body.is_primary ELSE @]
      Reject(code, msg) == /\ images' = images
                           /\ resp' = Response("updateProductImage", code, msg)
  IN /\ IF ~products[p].exists THEN Reject(404, "product not found")
        ELSE IF ~(image.exists /\ image.product_id = p)
          THEN Reject(404, "image not found")
        ELSE /\ images' = preSaveImage([images EXCEPT ![i] = assigned], i, image)
             /\ resp' = Response("updateProductImage", 200, "image updated")
     /\ UNCHANGED <<products, categories, carts, now, media>>

\* Candidates for nextImage of deleteProductImage: the other active images of
\* the product with the least order (findOne(...).sort({ order: 1 }) returns
\* one of them).
NextImages(p, i) ==
  LET others == {j \in ImagesOf(images, p) : j # i /\ images[j].is_active}
  IN {j \in others : \A k \in others : images[j].order <= images[k].order}

deleteProductImage(p, i) ==
  LET image == images[i]
      Reject(code, msg) == /\ images' = images
                           /\ resp' = Response("deleteProductImage", code, msg)
      Deleted(imgs) == [imgs EXCEPT ![i] = NoImage]
  IN /\ IF ~products[p].exists THEN Reject(404, "product not found")
        ELSE IF ~(image.exists /\ image.product_id = p)
          THEN Reject(404, "image not found")
        ELSE /\ IF image.is_primary /\ NextImages(p, i) # {}
                  THEN \E nextImage \in NextImages(p, i) :
                         images' = Deleted(preSaveImage(
                                     [images EXCEPT ![nextImage].is_primary = TRUE],
                                     nextImage, images[nextImage]))
                  ELSE images' = Deleted(images)
             /\ resp' = Response("deleteProductImage", 200, "image deleted")
     /\ UNCHANGED <<products, categories, carts, now, media>>

setPrimaryImage(p, i) ==
  LET image == images[i]
      Reject(code, msg) == /\ images' = images
                           /\ resp' = Response("setPrimaryImage", code, msg)
  IN /\ IF ~products[p].exists THEN Reject(404, "product not found")
        ELSE IF ~(image.exists /\ image.product_id = p)
          THEN Reject(404, "image not found")
        ELSE IF ~image.is_active THEN Reject(400, "inactive image")
        ELSE /\ images' = setPrimaryImageStatic(images, i, p)
             /\ resp' = Response("setPrimaryImage", 200, "primary image set")
     /\ UNCHANGED <<products, categories, carts, now, media>>

toggleCategoryStatus(c) ==
  /\ IF ~categories[c].exists
       THEN categories' = categories
       ELSE categories' = [categories EXCEPT ![c].is_active = ~@]
  /\ resp' = NoResponse
  /\ UNCHANGED <<products, images, carts, now, media>>

\* deleteCategory: 404 for no category, 400 while the category's counts is
\* above 0; then the logo, if the category has one, is deleted from the media
\* store with deleteImage, and the category is deleted. destroys tells whether
\* the media store carries the deletion out: when it does not, deleteImage
\* throws, the handler's catch answers 500 and findByIdAndDelete is not reached.
deleteCategory(c, destroys) ==
  LET category == categories[c]
      Reject(code, msg) == /\ UNCHANGED <<categories, media>>
                           /\ resp' = Response("deleteCategory", code, msg)
  IN /\ IF ~category.exists THEN Reject(404, "category not found")
        ELSE IF category.counts > 0 THEN Reject(400, "category has products")
        ELSE IF category.logo_public_id # "" /\ ~destroys
          THEN Reject(500, "failed to delete category")
        ELSE /\ media' = IF category.logo_public_id # ""
                            THEN deleteImage(media, category.logo_public_id)
                            ELSE media
             /\ categories' = [categories EXCEPT ![c] = NoCategoryDoc]
             /\ resp' = Response("deleteCategory", 200, "category deleted")
     /\ UNCHANGED <<products, images, carts, now>>

\* The catalogue's state once the admin has approved a group: products are
\* created in an active group.
SeedGroup(g) ==
  [NewGroup("u1", FALSE, "s1", NameOf(g))
     EXCEPT !.approval_status = "approved", !.is_active = TRUE,
            !.slug = baseSlug(NameOf(g))]

InitCatalogue ==
  /\ products = [p \in ProductIds |-> SeedProduct(p)]
  /\ requests = 0
  /\ carts = <<>>
  /\ now = 0
  /\ resp = NoResponse
  /\ groups = [g \in GroupIds |-> SeedGroup(g)]
  /\ categories = [c \in CategoryIds |-> SeedCategory(c)]
  /\ media = SeedMedia
  /\ services = [s \in ServiceIds |->
                   updateCounts(SeedService(s), [g \in GroupIds |-> SeedGroup(g)], s)]
  /\ blogs = [b \in BlogIds |-> NoBlog]
  /\ inflight = [r \in RequestIds |-> Idle]
  /\ users = [u \in Accounts |-> SeedUser(u)]
  /\ images = [i \in ImageIds |-> NoImage]

\* A catalogue request is served, from arrival to response.
ServeCatalogue ==
  /\ requests < MaxCatalogueRequests
  /\ requests' = requests + 1
  /\ UNCHANGED <<groups, services, blogs, inflight, users>>

CreateProduct ==
  ServeCatalogue /\ \E p \in ProductIds, c \in CategoryIds, g \in GroupIds,
                        n \in 0..MaxFiles : createProduct(p, c, g, n, NameOf(p))
MoveProduct ==
  ServeCatalogue /\ \E p \in ProductIds, body \in MoveBodies : updateProduct(p, body)
RemoveProduct == ServeCatalogue /\ \E p \in ProductIds : deleteProduct(p)
AddProductImages ==
  ServeCatalogue /\ \E p \in ProductIds, n \in 0..MaxFiles : addProductImages(p, n)
UpdateProductImage ==
  ServeCatalogue /\ \E p \in ProductIds, i \in ImageIds, body \in ImageBodies :
                      updateProductImage(p, i, body)
DeleteProductImage ==
  ServeCatalogue /\ \E p \in ProductIds, i \in ImageIds : deleteProductImage(p, i)
SetPrimaryImage ==
  ServeCatalogue /\ \E p \in ProductIds, i \in ImageIds : setPrimaryImage(p, i)
ToggleCategoryStatus == ServeCatalogue /\ \E c \in CategoryIds : toggleCategoryStatus(c)
DeleteCategory ==
  ServeCatalogue /\ \E c \in CategoryIds, destroys \in BOOLEAN :
                      deleteCategory(c, destroys)

NextCatalogue ==
  \/ CreateProduct
  \/ MoveProduct
  \/ RemoveProduct
  \/ AddProductImages
  \/ UpdateProductImage
  \/ DeleteProductImage
  \/ SetPrimaryImage
  \/ ToggleCategoryStatus
  \/ DeleteCategory

SpecCatalogue == InitCatalogue /\ [][NextCatalogue]_vars

\* The images collection with the flags concurrent uploads and edits can
\* leave: each image absent or of either product, active or not, primary or
\* not, so that a product may have none, one or several primary images.
InitPrimaryFlags ==
  /\ products = [p \in ProductIds |-> SeedProduct(p)]
  /\ requests = 0
  /\ carts = <<>>
  /\ now = 0
  /\ resp = NoResponse
  /\ groups = [g \in GroupIds |-> SeedGroup(g)]
  /\ categories = [c \in CategoryIds |-> SeedCategory(c)]
  /\ media = SeedMedia
  /\ services = [s \in ServiceIds |->
                   updateCounts(SeedService(s), [g \in GroupIds |-> SeedGroup(g)], s)]
  /\ blogs = [b \in BlogIds |-> NoBlog]
  /\ inflight = [r \in RequestIds |-> Idle]
  /\ users = [u \in Accounts |-> SeedUser(u)]
  /\ \E owner \in [ImageIds -> ProductIds \cup {"none"}],
        active \in [ImageIds -> BOOLEAN], primary \in [ImageIds -> BOOLEAN] :
       images = [i \in ImageIds |->
                   IF owner[i] = "none" THEN NoImage
                   ELSE [NewImage(owner[i], primary[i], i - 1)
                           EXCEPT !.is_active = active[i]]]

SpecPrimaryFlags == InitPrimaryFlags /\ [][SetPrimaryImage]_vars

(* ------------------------ naming and renaming ------------------------- *)

\* createCategory for a category id the collection does not hold, with or
\* without a logo file: 400 when a category has the name (letter case aside);
\* the logo is uploaded, then the category is saved. A save the unique index
\* on slug refuses ends in the catch: 500, no category, the uploaded logo left
\* in the media store.
createCategory(c, name, file) ==
  LET logo_public_id == IF file THEN LogoOf(c) ELSE ""
      saved == categoryPreSave(
                 [categories EXCEPT ![c] = NewCategory(name, logo_public_id)],
                 c, categories[c])
  IN /\ ~categories[c].exists
     /\ IF categoryNameExists(categories, c, name)
          THEN /\ UNCHANGED <<categories, media>>
               /\ resp' = Response("createCategory", 400, "name exists")
          ELSE /\ media' = IF file THEN media \cup {logo_public_id} ELSE media
               /\ IF categoryIndexAccepts(saved, c)
                    THEN /\ categories' = saved
                         /\ resp' = Response("createCategory", 201, "created")
                    ELSE /\ categories' = categories
                         /\ resp' = Response("createCategory", 500, "failed")
     /\ UNCHANGED <<products, images, carts, now>>

\* updateCategory with a name in the body and no file: category.save() runs
\* the pre('save') hook and meets the unique index.
updateCategory(c, name) ==
  LET category == categories[c]
      saved == categoryPreSave([categories EXCEPT ![c].name = name], c, category)
      Reject(code, msg) == /\ categories' = categories
                           /\ resp' = Response("updateCategory", code, msg)
  IN /\ IF ~category.exists THEN Reject(404, "category not found")
        ELSE IF name # category.name /\ categoryNameExists(categories, c, name)
          THEN Reject(400, "name exists")
        ELSE IF ~categoryIndexAccepts(saved, c) THEN Reject(500, "failed")
        ELSE /\ categories' = saved
             /\ resp' = Response("updateCategory", 200, "updated")
     /\ UNCHANGED <<products, images, carts, now, media>>

\* createService for a service id the collection does not hold.
createService(s, title) ==
  /\ ~services[s].exists
  /\ IF titleExists(services, s, title)
       THEN /\ services' = services
            /\ resp' = Response("createService", 400, "title exists")
       ELSE /\ services' = servicePreSave(
                             [services EXCEPT ![s] = NewService(title)],
                             s, services[s])
            /\ resp' = Response("createService", 201, "created")

\* updateService with a title in the body: Service.findByIdAndUpdate, which
\* runs no pre("save") hook.
updateService(s, title) ==
  LET service == services[s]
      Reject(code, msg) == /\ services' = services
                           /\ resp' = Response("updateService", code, msg)
  IN IF ~service.exists THEN Reject(404, "service not found")
     ELSE IF title # service.title /\ titleExists(services, s, title)
       THEN Reject(400, "title exists")
     ELSE /\ services' = [services EXCEPT ![s].title = title]
          /\ resp' = Response("updateService", 200, "updated")

\* createBlog for a blog id the collection does not hold, with a gallery image.
createBlog(b, title) ==
  LET Reject(code, msg) == /\ blogs' = blogs
                           /\ resp' = Response("createBlog", code, msg)
  IN /\ ~blogs[b].exists
     /\ IF titleExists(blogs, b, title) THEN Reject(400, "title exists")
        ELSE IF ~services[DefaultService].exists
          THEN Reject(400, "default service not found")
        ELSE /\ blogs' = blogPreSave([blogs EXCEPT ![b] = NewBlog(title)],
                                     b, blogs[b])
             /\ resp' = Response("createBlog", 201, "created")

\* updateBlog with a title in the body: Blog.findByIdAndUpdate, which runs no
\* pre("save") hook.
updateBlog(b, title) ==
  LET blog == blogs[b]
      Reject(code, msg) == /\ blogs' = blogs
                           /\ resp' = Response("updateBlog", code, msg)
  IN IF ~blog.exists THEN Reject(404, "blog not found")
     ELSE IF title # blog.title /\ titleExists(blogs, b, title)
       THEN Reject(400, "title exists")
     ELSE /\ blogs' = [blogs EXCEPT ![b].title = title]
          /\ resp' = Response("updateBlog", 200, "updated")

\* The collections with one document each, named ab: product p1 in category
\* c1 and group g1, group g1 approved in service s1, blog b1.
InitNames ==
  LET seeded == [g \in GroupIds |-> IF g = "g1" THEN SeedGroup(g) ELSE NoGroup]
  IN /\ products = [p \in ProductIds |-> IF p = "p1" THEN SeedProduct(p) ELSE NoProduct]
     /\ requests = 0
     /\ carts = <<>>
     /\ now = 0
     /\ resp = NoResponse
     /\ groups = seeded
     /\ categories = [c \in CategoryIds |->
                        IF c = "c1" THEN SeedCategory(c) ELSE NoCategoryDoc]
     /\ images = [i \in ImageIds |-> NoImage]
     /\ media = SeedMedia
     /\ services = [s \in ServiceIds |->
                      IF s = "s1" THEN updateCounts(SeedService(s), seeded, s)
                      ELSE NoServiceDoc]
     /\ blogs = [b \in BlogIds |-> IF b = "b1" THEN [NewBlog(NameOf(b)) EXCEPT
                                                        !.slug = baseSlug(NameOf(b))]
                                   ELSE NoBlog]
     /\ inflight = [r \in RequestIds |-> Idle]
     /\ users = [u \in Accounts |-> SeedUser(u)]

\* A request that creates or renames is served, from arrival to response.
ServeNames ==
  /\ requests < MaxNameRequests
  /\ requests' = requests + 1
  /\ UNCHANGED <<inflight, users>>

CreateCategory ==
  /\ ServeNames
  /\ \E c \in CategoryIds, name \in Names, file \in BOOLEAN :
       createCategory(c, name, file)
  /\ UNCHANGED <<groups, services, blogs>>
UpdateCategory ==
  /\ ServeNames
  /\ \E c \in CategoryIds, name \in Names : updateCategory(c, name)
  /\ UNCHANGED <<groups, services, blogs>>
CreateNamedProduct ==
  /\ ServeNames
  /\ \E p \in ProductIds, c \in CategoryIds, g \in GroupIds, name \in Names :
       createProduct(p, c, g, 0, name)
  /\ UNCHANGED <<groups, services, blogs>>
RenameProduct ==
  /\ ServeNames
  /\ \E p \in ProductIds, body \in RenameBodies : updateProduct(p, body)
  /\ UNCHANGED <<groups, services, blogs>>
CreateNamedGroup ==
  /\ ServeNames
  /\ \E g \in GroupIds, s \in ServiceIds, name \in Names :
       createGroup("u1", g, FALSE, s, name)
  /\ UNCHANGED <<products, carts, now, categories, images, media, blogs>>
RenameGroup ==
  /\ ServeNames
  /\ \E u \in Actors, g \in GroupIds, name \in Names : updateGroup(u, g, name, FALSE)
  /\ UNCHANGED <<products, carts, now, categories, images, media, blogs>>
CreateService ==
  /\ ServeNames
  /\ \E s \in ServiceIds, title \in Names : createService(s, title)
  /\ UNCHANGED <<products, carts, now, categories, images, media, groups, blogs>>
UpdateService ==
  /\ ServeNames
  /\ \E s \in ServiceIds, title \in Names : updateService(s, title)
  /\ UNCHANGED <<products, carts, now, categories, images, media, groups, blogs>>
CreateBlog ==
  /\ ServeNames
  /\ \E b \in BlogIds, title \in Names : createBlog(b, title)
  /\ UNCHANGED <<products, carts, now, categories, images, media, groups, services>>
UpdateBlog ==
  /\ ServeNames
  /\ \E b \in BlogIds, title \in Names : updateBlog(b, title)
  /\ UNCHANGED <<products, carts, now, categories, images, media, groups, services>>

NextNames ==
  \/ CreateCategory
  \/ UpdateCategory
  \/ CreateNamedProduct
  \/ RenameProduct
  \/ CreateNamedGroup
  \/ RenameGroup
  \/ CreateService
  \/ UpdateService
  \/ CreateBlog
  \/ UpdateBlog

SpecNames == InitNames /\ [][NextNames]_vars

(* ------------------ group requests served concurrently ---------------- *)

\* An id no group has.
NoGroupId == "none"

\* createGroup up to its last await before Group.create: the service and name
\* lookups, made on the collections as they are now.
createGroupLookup(r, userId, service_id, name) ==
  /\ inflight[r] = Idle
  /\ IF ~(services[service_id].exists /\ services[service_id].is_active)
       THEN /\ resp' = Response("createGroup", 404, "service not found")
            /\ inflight' = inflight
     ELSE IF groupNameExists(groups, NoGroupId, name, service_id)
       THEN /\ resp' = Response("createGroup", 400, "name exists in service")
            /\ inflight' = inflight
     ELSE /\ resp' = resp
          /\ inflight' = [inflight EXCEPT ![r] =
                            [op |-> "createGroup", userId |-> userId,
                             service_id |-> service_id, name |-> name]]
  /\ UNCHANGED <<groups, services>>

\* Group.create of a createGroup that passed its lookups: the document gets
\* the id g, the pre("save") hook its slug, the post("save") hook runs.
createGroupWrite(r, g) ==
  LET req == inflight[r]
      created ==
        groupPreSave([groups EXCEPT
                        ![g] = NewGroup(req.userId, FALSE, req.service_id, req.name)],
                     g, groups[g])
  IN /\ req.op = "createGroup"
     /\ ~groups[g].exists
     /\ groups' = created
     /\ services' = postGroupHook(created, req.service_id)
     /\ resp' = Response("createGroup", 201, "group created")
     /\ inflight' = [inflight EXCEPT ![r] = Idle]

\* updateGroup with a name in the body, up to its last await before
\* Group.findByIdAndUpdate.
updateGroupLookup(r, userId, g, name) ==
  LET group == groups[g]
      Reject(code, msg) == /\ resp' = Response("updateGroup", code, msg)
                           /\ inflight' = inflight
  IN /\ inflight[r] = Idle
     /\ IF ~group.exists THEN Reject(404, "group not found")
        ELSE IF ~(group.group_admin = userId \/ userId \in Admins)
          THEN Reject(403, "not authorized")
        ELSE IF /\ name # group.name
                /\ groupNameExists(groups, g, name, group.service_id)
          THEN Reject(400, "name exists in service")
        ELSE /\ resp' = resp
             /\ inflight' = [inflight EXCEPT ![r] =
                               [op |-> "updateGroup", g |-> g, name |-> name]]
     /\ UNCHANGED <<groups, services>>

\* Group.findByIdAndUpdate of an updateGroup that passed its lookups.
updateGroupWrite(r) ==
  LET req == inflight[r]
      updated == [groups EXCEPT ![req.g].name = req.name]
  IN /\ req.op = "updateGroup"
     /\ groups[req.g].exists
     /\ groups' = updated
     /\ services' = postGroupHook(updated, groups[req.g].service_id)
     /\ resp' = Response("updateGroup", 200, "group updated")
     /\ inflight' = [inflight EXCEPT ![r] = Idle]

\* Service s1 with group g1 in it, or with no group yet.
InitGroupRace ==
  \E withGroup \in BOOLEAN :
    LET seeded == [g \in GroupIds |->
                     IF withGroup /\ g = "g1" THEN SeedGroup(g) ELSE NoGroup]
    IN /\ products = [p \in ProductIds |-> SeedProduct(p)]
       /\ requests = 0
       /\ carts = <<>>
       /\ now = 0
       /\ resp = NoResponse
       /\ groups = seeded
       /\ categories = [c \in CategoryIds |-> SeedCategory(c)]
       /\ images = [i \in ImageIds |-> NoImage]
       /\ media = SeedMedia
       /\ services = [s \in ServiceIds |-> updateCounts(SeedService(s), seeded, s)]
       /\ blogs = [b \in BlogIds |-> NoBlog]
       /\ inflight = [r \in RequestIds |-> Idle]
       /\ users = [u \in Accounts |-> SeedUser(u)]

\* A request arrives while the budget lasts.
Arrive ==
  /\ requests < MaxRaceRequests
  /\ requests' = requests + 1
  /\ UNCHANGED users

CreateGroupLookup ==
  /\ Arrive
  /\ \E r \in RequestIds, u \in Users, s \in ServiceIds, name \in Names :
       createGroupLookup(r, u, s, name)
  /\ UNCHANGED <<products, carts, now, categories, images, media, blogs>>
CreateGroupWrite ==
  /\ \E r \in RequestIds, g \in GroupIds : createGroupWrite(r, g)
  /\ UNCHANGED <<products, carts, now, categories, images, media, blogs, requests,
               users>>
UpdateGroupLookup ==
  /\ Arrive
  /\ \E r \in RequestIds, u \in Users, g \in GroupIds, name \in Names :
       updateGroupLookup(r, u, g, name)
  /\ UNCHANGED <<products, carts, now, categories, images, media, blogs>>
UpdateGroupWrite ==
  /\ \E r \in RequestIds : updateGroupWrite(r)
  /\ UNCHANGED <<products, carts, now, categories, images, media, blogs, requests,
               users>>

NextGroupRace ==
  \/ CreateGroupLookup
  \/ CreateGroupWrite
  \/ UpdateGroupLookup
  \/ UpdateGroupWrite

SpecGroupRace == InitGroupRace /\ [][NextGroupRace]_vars

(* ------------------- cart requests served concurrently ---------------- *)

\* getUserCart up to the answer of its first Cart.getUserActiveCart: with an
\* active cart the handler goes on to its response; with none it is about to
\* create one.
getUserCartLookup(r, u) ==
  /\ inflight[r] = Idle
  /\ IF getUserActiveCart(u) # 0
       THEN /\ getUserCart(u)
            /\ inflight' = inflight
       ELSE /\ inflight' = [inflight EXCEPT ![r] = [op |-> "getUserCart", u |-> u]]
            /\ UNCHANGED <<carts, resp, products, now, categories, images>>

\* new Cart({ user_id }) and cart.save() of a getUserCart that found no
\* active cart, then the response: the cart read back is empty or, if it is
\* another request's, holds lines of products that have not changed, so the
\* loop over its lines changes nothing.
getUserCartCreate(r) ==
  LET req == inflight[r]
  IN /\ req.op = "getUserCart"
     /\ carts' = Saved(Len(carts) + 1, NewCart(req.u))
     /\ resp' = Response("getUserCart", 200, "null")
     /\ inflight' = [inflight EXCEPT ![r] = Idle]
     /\ UNCHANGED <<products, now, categories, images>>

\* addToCart up to the answer of Cart.getUserActiveCart, with the checks the
\* handler makes on what it has read: the product, and the cart's lines as
\* they are now.
addToCartLookup(r, u, p, quantity) ==
  LET product == findProduct(p)
      existing == getUserActiveCart(u)
      cart == IF existing = 0 THEN NewCart(u) ELSE carts[existing]
      existingItem == findIndex(cart.items, p)
      currentQuantityInCart ==
        IF existingItem > 0 THEN cart.items[existingItem].quantity ELSE 0
      totalRequestedQuantity == currentQuantityInCart + quantity
      Reject(code, msg) == /\ resp' = Response("addToCart", code, msg)
                           /\ inflight' = inflight
  IN /\ inflight[r] = Idle
     /\ IF ~product.exists THEN Reject(404, "product not found")
        ELSE IF ~product.is_active THEN Reject(400, "product not active")
        ELSE IF is_expired(product) THEN Reject(400, "product expired")
        ELSE IF product.quantity < quantity THEN Reject(400, "only n in stock")
        ELSE IF existingItem = Throws THEN Reject(500, "error")
        ELSE IF totalRequestedQuantity > product.quantity
          THEN Reject(400, "only n more available")
        ELSE /\ resp' = resp
             /\ inflight' = [inflight EXCEPT ![r] =
                               [op |-> "addToCart", u |-> u, p |-> p,
                                quantity |-> quantity, price |-> product.price,
                                id |-> existing, cart |-> cart]]
     /\ UNCHANGED <<carts, products, now, categories, images>>

\* cart.addItem and its save() for an addToCart that passed its checks. A
\* cart that was not found is inserted with its line. A cart that was read is
\* updated with what the request changed in its copy: the pushed line is
\* appended to the lines the stored cart has now (or the quantity of the line
\* the request merged into is set), and the totals are set to those of the copy.
addToCartSave(r) ==
  LET req == inflight[r]
      existingItemIndex == findIndex(req.cart.items, req.p)
      added == PreSave([req.cart EXCEPT
                          !.items = addItem(@, req.p, req.quantity, req.price)])
      stored == carts[req.id]
      written ==
        [stored EXCEPT
           !.items = IF existingItemIndex > 0
                       THEN [@ EXCEPT ![existingItemIndex].quantity =
                                        added.items[existingItemIndex].quantity]
                       ELSE Append(@, added.items[Len(added.items)]),
           !.total_items = added.total_items,
           !.total_amount = added.total_amount]
  IN /\ req.op = "addToCart"
     /\ carts' = IF req.id = 0 THEN Append(carts, added)
                 ELSE [carts EXCEPT ![req.id] = written]
     /\ resp' = Response("addToCart", 200, "item added")
     /\ inflight' = [inflight EXCEPT ![r] = Idle]
     /\ UNCHANGED <<products, now, categories, images>>

GetUserCartLookup ==
  /\ Arrive
  /\ \E r \in RequestIds, u \in Users : getUserCartLookup(r, u)
  /\ UNCHANGED <<groups, media, services, blogs>>
GetUserCartCreate ==
  /\ \E r \in RequestIds : getUserCartCreate(r)
  /\ UNCHANGED <<groups, media, services, blogs, requests, users>>
AddToCartLookup ==
  /\ Arrive
  /\ \E r \in RequestIds, u \in Users, p \in ProductIds, q \in 1..MaxStock :
       addToCartLookup(r, u, p, q)
  /\ UNCHANGED <<groups, media, services, blogs>>
AddToCartSave ==
  /\ \E r \in RequestIds : addToCartSave(r)
  /\ UNCHANGED <<groups, media, services, blogs, requests, users>>

NextCartRace ==
  \/ GetUserCartLookup
  \/ GetUserCartCreate
  \/ AddToCartLookup
  \/ AddToCartSave

SpecCartRace == Init /\ [][NextCartRace]_vars

(* ---------------------- user administration requests ------------------- *)

\* User.countDocuments({ role: "admin", isActive: true, _id: { $ne: id } }).
adminCount(collection, id) ==
  Cardinality({o \in Accounts \ {id} :
                 /\ collection[o].exists
                 /\ collection[o].role = "admin"
                 /\ collection[o].isActive})

\* User.findOne({ [field]: value, _id: { $ne: id } }).
userWith(field, value, id) ==
  \E o \in Accounts \ {id} : users[o].exists /\ users[o][field] = value

\* updateUser with no guard on the requester's own role and status.
updateUserOfAnyAccount(requester, id, body) ==
  LET existingUser == users[id]
      Reject(code, msg) == /\ users' = users
                           /\ resp' = Response("updateUser", code, msg)
      Given(field) == field \in DOMAIN body
      updated ==
        [existingUser EXCEPT
           !.fullName = IF Given("fullName") THEN body.fullName ELSE @,
           !.username = IF Given("username") THEN body.username ELSE @,
           !.email = IF Given("email") THEN body.email ELSE @,
           !.phone = IF Given("phone") THEN body.phone ELSE @,
           !.role = IF Given("role") THEN body.role ELSE @,
           !.isActive = IF Given("isActive") THEN body.isActive ELSE @]
  IN /\ IF id = BadId THEN Reject(400, "invalid user id format")
        ELSE IF ~existingUser.exists THEN Reject(404, "user not found")
        ELSE IF Given("username") /\ userWith("username", body.username, id)
          THEN Reject(400, "username already exists")
        ELSE IF Given("email") /\ userWith("email", body.email, id)
          THEN Reject(400, "email already exists")
        ELSE IF Given("phone") /\ userWith("phone", body.phone, id)
          THEN Reject(400, "phone number already exists")
        ELSE IF Given("role") /\ body.role \notin Roles
          THEN Reject(400, "validation error")
        ELSE /\ users' = [users EXCEPT ![id] = updated]
             /\ resp' = Response("updateUser", 200, "user updated")

\* updateUser, requested by the admin req.user: 400 for a malformed id, 404
\* for no user; an admin cannot change the own role or status; 400 when the
\* username, email or phone belongs to another user; then the fields of the
\* body are set with findByIdAndUpdate, whose validators (runValidators)
\* refuse a role outside the enum with 400.
updateUser(requester, id, body) ==
  LET existingUser == users[id]
      Reject(code, msg) == /\ users' = users
                           /\ resp' = Response("updateUser", code, msg)
      Given(field) == field \in DOMAIN body
      updated ==
        [existingUser EXCEPT
           !.fullName = IF Given("fullName") THEN body.fullName ELSE @,
           !.username = IF Given("username") THEN body.username ELSE @,
           !.email = IF Given("email") THEN body.email ELSE @,
           !.phone = IF Given("phone") THEN body.phone ELSE @,
           !.role = IF Given("role") THEN body.role ELSE @,
           !.isActive = IF Given("isActive") THEN body.isActive ELSE @]
  IN /\ IF id = BadId THEN Reject(400, "invalid user id format")
        ELSE IF ~existingUser.exists THEN Reject(404, "user not found")
        ELSE IF id = requester /\ Given("role") /\ body.role # existingUser.role
          THEN Reject(400, "cannot modify your own role")
        ELSE IF id = requester /\ Given("isActive")
                  /\ body.isActive # existingUser.isActive
          THEN Reject(400, "cannot modify your own account status")
        ELSE IF Given("username") /\ userWith("username", body.username, id)
          THEN Reject(400, "username already exists")
        ELSE IF Given("email") /\ userWith("email", body.email, id)
          THEN Reject(400, "email already exists")
        ELSE IF Given("phone") /\ userWith("phone", body.phone, id)
          THEN Reject(400, "phone number already exists")
        ELSE IF Given("role") /\ body.role \notin Roles
          THEN Reject(400, "validation error")
        ELSE /\ users' = [users EXCEPT ![id] = updated]
             /\ resp' = Response("updateUser", 200, "user updated")

\* deleteUser, requested by the admin req.user: 400 for a malformed id, 404
\* for no user, 400 for the own account, 400 for an admin when no other
\* active admin exists; then the user is deleted (permanent) or deactivated.
deleteUser(requester, id, permanent) ==
  LET user == users[id]
      Reject(code, msg) == /\ users' = users
                           /\ resp' = Response("deleteUser", code, msg)
  IN /\ IF id = BadId THEN Reject(400, "invalid user id format")
        ELSE IF ~user.exists THEN Reject(404, "user not found")
        ELSE IF id = requester THEN Reject(400, "cannot delete your own account")
        ELSE IF user.role = "admin" /\ adminCount(users, id) = 0
          THEN Reject(400, "cannot delete the last admin user")
        ELSE IF permanent
          THEN /\ users' = [users EXCEPT ![id] = NoUserDoc]
               /\ resp' = Response("deleteUser", 200, "user permanently deleted")
        ELSE /\ users' = [users EXCEPT ![id].isActive = FALSE]
             /\ resp' = Response("deleteUser", 200, "user deactivated")

\* reactivateUser: 400 for a malformed id, 404 for no user, 400 for a user
\* who is active; then the user is made active.
reactivateUser(id) ==
  LET user == users[id]
      Reject(code, msg) == /\ users' = users
                           /\ resp' = Response("reactivateUser", code, msg)
  IN /\ IF id = BadId THEN Reject(400, "invalid user id format")
        ELSE IF ~user.exists THEN Reject(404, "user not found")
        ELSE IF user.isActive THEN Reject(400, "user is already active")
        ELSE /\ users' = [users EXCEPT ![id].isActive = TRUE]
             /\ resp' = Response("reactivateUser", 200, "user reactivated")

\* The active admins: the users the admin routes let through.
ActiveAdmins ==
  {u \in Accounts : users[u].exists /\ users[u].role = "admin" /\ users[u].isActive}

\* The bodies of the update requests: a role (one of them outside the enum),
\* a status, both, or a new full name, username, email or phone.
UserBodies ==
  [{"role"} -> Roles \cup {"manager"}]
    \cup [{"isActive"} -> BOOLEAN]
    \cup {[role |-> "user", isActive |-> FALSE], [role |-> "admin", isActive |-> TRUE]}
    \cup [{"fullName"} -> {"new"}]
    \cup [{"username"} -> {"u1", "new"}]
    \cup [{"email"} -> {"u1", "new"}]
    \cup [{"phone"} -> {"u1", "new"}]

\* The users collection with one active admin at least: the system admin,
\* and every other account absent, or present with either role, active or not.
InitUsers ==
  /\ products = [p \in ProductIds |-> SeedProduct(p)]
  /\ requests = 0
  /\ carts = <<>>
  /\ now = 0
  /\ resp = NoResponse
  /\ groups = [g \in GroupIds |-> NoGroup]
  /\ categories = [c \in CategoryIds |-> SeedCategory(c)]
  /\ images = [i \in ImageIds |-> NoImage]
  /\ media = SeedMedia
  /\ services = [s \in ServiceIds |-> SeedService(s)]
  /\ blogs = [b \in BlogIds |-> NoBlog]
  /\ inflight = [r \in RequestIds |-> Idle]
  /\ users \in [Accounts -> {NoUserDoc} \cup
                              {[SeedUser(u) EXCEPT !.role = role, !.isActive = active] :
                                 u \in Accounts, role \in Roles, active \in BOOLEAN}]
  /\ \A u \in Accounts : users[u].exists => users[u].username = u
  /\ \A a \in Admins : users[a] = SeedUser(a)

\* A request of an active admin is served, from arrival to response.
ServeUsers ==
  /\ requests < MaxUserRequests
  /\ requests' = requests + 1
  /\ UNCHANGED <<products, carts, now, groups, categories, images, media,
                 services, blogs, inflight>>

UpdateUser ==
  /\ ServeUsers
  /\ \E requester \in ActiveAdmins, id \in Accounts \cup {BadId}, body \in UserBodies :
       updateUser(requester, id, body)
DeleteUser ==
  /\ ServeUsers
  /\ \E requester \in ActiveAdmins, id \in Accounts \cup {BadId}, permanent \in BOOLEAN :
       deleteUser(requester, id, permanent)
ReactivateUser ==
  /\ ServeUsers
  /\ ActiveAdmins # {}
  /\ \E id \in Accounts \cup {BadId} : reactivateUser(id)

NextUsers ==
  \/ UpdateUser
  \/ DeleteUser
  \/ ReactivateUser

SpecUsers == InitUsers /\ [][NextUsers]_vars

(* ------------------------ claims on the groups ------------------------ *)

\* Number of join records a user has in a group.
JoinRecords(g, u) ==
  Cardinality({i \in 1..Len(groups[g].joined_users) :
                 groups[g].joined_users[i].user_id = u})

\* C14 (as claimed): after every completed joinGroup, approveUserJoin and
\* rejectUserJoin, the group's members_count equals the number of its join
\* records whose status is approved.
C14_MembersCountIsApprovedCount ==
  (resp.op \in {"joinGroup", "approveUserJoin", "rejectUserJoin"} /\ resp.code = 200)
    => \A g \in GroupIds :
         groups[g].exists
           => groups[g].members_count = approvedCount(groups[g].joined_users)

\* C15 (as claimed): joinGroup by a user with no join record on an active,
\* approved group appends exactly one record for the user, approved when the
\* group is public and pending when it is private; members_count grows by
\* exactly 1 in the public case and stays as it is in the private case.
C15_JoinAddsOneRecord ==
  [][\A u \in Actors, g \in GroupIds :
       (/\ joinGroup(u, g)
        /\ groups[g].exists /\ groups[g].is_active
        /\ groups[g].approval_status = "approved"
        /\ JoinRecords(g, u) = 0)
       => /\ resp'.code = 200
          /\ groups'[g].joined_users =
               Append(groups[g].joined_users,
                      [user_id |-> u,
                       status |-> IF groups[g].is_private THEN "pending"
                                  ELSE "approved"])
          /\ groups'[g].members_count =
               IF groups[g].is_private THEN groups[g].members_count
               ELSE groups[g].members_count + 1]_vars

\* C16: with requests served one at a time, a group holds at most one join
\* record per user in every state, and a joinGroup by a user who has a record
\* (pending, approved or rejected) is refused and leaves the group unchanged.
C16_OneJoinRecordPerUser ==
  [][/\ \A g \in GroupIds, u \in Actors : JoinRecords(g, u)' <= 1
     /\ \A u \in Actors, g \in GroupIds :
          (joinGroup(u, g) /\ groups[g].exists /\ JoinRecords(g, u) >= 1)
          => (resp'.code = 400 /\ groups' = groups)]_vars

\* A user whose request was rejected asked to join again and was refused.
C16_Witness ==
  /\ resp.op = "joinGroup" /\ resp.msg = "already joined"
  /\ \E g \in GroupIds :
       /\ groups[g].is_active /\ groups[g].approval_status = "approved"
       /\ \E i \in 1..Len(groups[g].joined_users) :
            groups[g].joined_users[i].status = "rejected"

\* C17: approveUserJoin and rejectUserJoin succeed only for the group's
\* group_admin; a request by any other user, the system admin included, is
\* refused and leaves the group's join records and members_count unchanged.
C17_OnlyGroupAdminDecides ==
  [][\A c \in Actors, g \in GroupIds, u \in Actors :
       (/\ approveUserJoin(c, g, u) \/ rejectUserJoin(c, g, u)
        /\ groups[g].exists)
       => /\ resp'.code = 200 => c = groups[g].group_admin
          /\ c # groups[g].group_admin
               => (resp'.code = 403 /\ groups' = groups)]_vars

\* A user other than the group admin was refused while a request is pending.
C17_Witness ==
  /\ resp.op \in {"approveUserJoin", "rejectUserJoin"} /\ resp.code = 403
  /\ \E g \in GroupIds :
       /\ groups[g].exists /\ groups[g].group_admin \in Users
       /\ \E i \in 1..Len(groups[g].joined_users) :
            groups[g].joined_users[i].status = "pending"

(* ----------------------- claims on the catalogue ---------------------- *)

\* Ids of the images of product p that are flagged primary.
PrimaryImages(imgs, p) == {i \in ImagesOf(imgs, p) : imgs[i].is_primary}

\* C18: setPrimaryImage for an active image i of an existing product p
\* succeeds, and after it exactly one image of p is primary and it is i,
\* whatever flags the images of p had before (none, one or several primary).
C18_SetPrimaryLeavesOnePrimary ==
  [][\A p \in ProductIds, i \in ImageIds :
       (/\ setPrimaryImage(p, i)
        /\ products[p].exists
        /\ i \in ImagesOf(images, p) /\ images[i].is_active)
       => (/\ resp'.code = 200
           /\ PrimaryImages(images', p) = {i}
           /\ ImagesOf(images', p) = ImagesOf(images, p))]_vars

\* The last image of a product of three images was set primary.
C18_Witness ==
  /\ resp.op = "setPrimaryImage" /\ resp.code = 200
  /\ \E p \in ProductIds :
       /\ ImagesOf(images, p) = ImageIds
       /\ PrimaryImages(images, p) = {MaxImages}

\* C19: with requests served one at a time, after any sequence of
\* createProduct, addProductImages, updateProductImage, deleteProductImage and
\* setPrimaryImage each product has at most one image with is_primary true.
C19_AtMostOnePrimary ==
  \A p \in ProductIds : Cardinality(PrimaryImages(images, p)) <= 1

\* The primary image of a product was deleted and another image of the
\* product took the flag.
C19_Witness ==
  /\ resp.op = "deleteProductImage" /\ resp.code = 200
  /\ \E p \in ProductIds :
       /\ Cardinality(ImagesOf(images, p)) >= 1
       /\ Cardinality(PrimaryImages(images, p)) = 1

\* C20 (as claimed): with requests served one at a time, after any sequence of
\* createProduct, updateProduct (moves between categories and requests that
\* end in an error included) and deleteProduct, every category's counts equals
\* the number of products whose category_id is that category.
C20_CountsMatchProducts ==
  \A c \in CategoryIds :
    categories[c].exists
      => categories[c].counts =
           Cardinality({p \in ProductIds :
                          products[p].exists /\ products[p].category_id = c})


(* ----------------------- claims on deleteCategory --------------------- *)

\* C21 (as claimed): deleteCategory of a category with counts above 0 always
\* fails and leaves the category in place; with counts 0 it succeeds, removes
\* the category and deletes its logo asset from the media store.
C21_DeleteCategoryByCounts ==
  [][\A c \in CategoryIds, destroys \in BOOLEAN :
       deleteCategory(c, destroys) /\ categories[c].exists
       => IF categories[c].counts > 0
            THEN /\ resp'.code = 400
                 /\ categories' = categories /\ media' = media
            ELSE /\ resp'.code = 200
                 /\ ~categories'[c].exists
                 /\ categories[c].logo_public_id \notin media']_vars

\* C21 (amended): with counts above 0 deleteCategory always fails and changes
\* nothing; with counts 0 it succeeds, removes the category and deletes its
\* logo asset, unless the category has a logo and the media store fails to
\* delete it: then the request fails with 500 and the category and the logo
\* stay.
C21_DeleteCategoryUnlessStoreFails ==
  [][\A c \in CategoryIds, destroys \in BOOLEAN :
       deleteCategory(c, destroys) /\ categories[c].exists
       => IF categories[c].counts > 0
            THEN /\ resp'.code = 400
                 /\ categories' = categories /\ media' = media
          ELSE IF categories[c].logo_public_id # "" /\ ~destroys
            THEN /\ resp'.code = 500
                 /\ categories' = categories /\ media' = media
          ELSE /\ resp'.code = 200
               /\ categories' = [categories EXCEPT ![c] = NoCategoryDoc]
               /\ categories[c].logo_public_id \notin media']_vars

\* A category that had a logo was deleted, and its logo with it.
C21_Witness ==
  /\ resp.op = "deleteCategory" /\ resp.code = 200
  /\ ~categories["c1"].exists
  /\ SeedCategory("c1").logo_public_id \notin media


(* --------------------- claims on the service counts ------------------- *)

\* C22: after every group request (createGroup, updateGroup, approveGroup,
\* rejectGroup, joinGroup, approveUserJoin, rejectUserJoin, deleteGroup) each
\* service's total_groups is the number of its active, approved groups and its
\* total_members is the sum of members_count over those groups.
C22_ServiceCountsMatchGroups ==
  \A s \in ServiceIds :
    LET counted == {g \in GroupIds :
                      /\ groups[g].exists /\ groups[g].service_id = s
                      /\ groups[g].is_active
                      /\ groups[g].approval_status = "approved"}
    IN /\ services[s].total_groups = Cardinality(counted)
       /\ services[s].total_members = SumMembers(groups, counted)

\* A service counts one approved group with a member, while it has another
\* group that is not approved.
C22_Witness ==
  \E s \in ServiceIds, g, h \in GroupIds :
    /\ groups[g].exists /\ groups[g].service_id = s
    /\ groups[g].approval_status = "approved" /\ groups[g].members_count >= 1
    /\ groups[h].exists /\ groups[h].service_id = s
    /\ groups[h].approval_status # "approved"
    /\ services[s].total_groups = 1 /\ services[s].total_members >= 1


(* -------------------------- claims on slugs --------------------------- *)

\* The slug is the base slug followed by a hyphen and a number.
Suffixed(slug, base) ==
  \E n \in 1..9 : slug = base \o <<"-">> \o Decimal(n)

\* No two documents of the collection have the same slug.
UniqueSlugs(collection) ==
  \A i, j \in DOMAIN collection :
    i # j /\ collection[i].exists /\ collection[j].exists
    => collection[i].slug # collection[j].slug

\* Document id was created in the step with a suffixed slug of the name, and
\* the slugs of the collection after the step are unique.
CreatedWithSuffix(after, id, name) ==
  /\ after[id].exists
  /\ Suffixed(after[id].slug, baseSlug(name))
  /\ UniqueSlugs(after)

\* C23 (as claimed): for each of Category, Product, Group, Service and Blog,
\* a create request whose name passes the handler's name check and derives a
\* base slug another document of the collection already has succeeds: the new
\* document gets that base slug with a numeric suffix, and the slugs of the
\* collection stay unique.
C23_SlugCollisionGetsSuffix ==
  [][/\ \A c \in CategoryIds, name \in Names, file \in BOOLEAN :
          /\ createCategory(c, name, file)
          /\ ~categoryNameExists(categories, c, name)
          /\ baseSlug(name) \in SlugsOfOthers(categories, c)
          => CreatedWithSuffix(categories', c, name)
     /\ \A p \in ProductIds, c \in CategoryIds, g \in GroupIds, name \in Names :
          /\ createProduct(p, c, g, 0, name)
          /\ categories[c].exists /\ categories[c].is_active
          /\ groups[g].exists /\ groups[g].is_active
          /\ baseSlug(name) \in SlugsOfOthers(products, p)
          => CreatedWithSuffix(products', p, name)
     /\ \A g \in GroupIds, s \in ServiceIds, name \in Names :
          /\ createGroup("u1", g, FALSE, s, name)
          /\ services[s].exists /\ services[s].is_active
          /\ ~groupNameExists(groups, g, name, s)
          /\ baseSlug(name) \in SlugsOfOthers(groups, g)
          => CreatedWithSuffix(groups', g, name)
     /\ \A s \in ServiceIds, title \in Names :
          /\ createService(s, title)
          /\ ~titleExists(services, s, title)
          /\ baseSlug(title) \in SlugsOfOthers(services, s)
          => CreatedWithSuffix(services', s, title)
     /\ \A b \in BlogIds, title \in Names :
          /\ createBlog(b, title)
          /\ ~titleExists(blogs, b, title) /\ services[DefaultService].exists
          /\ baseSlug(title) \in SlugsOfOthers(blogs, b)
          => CreatedWithSuffix(blogs', b, title)]_vars

\* The slug is derived from the name: its base slug, with or without a
\* numeric suffix.
DerivedFrom(slug, name) ==
  slug = baseSlug(name) \/ Suffixed(slug, baseSlug(name))

\* C24 (as claimed): after a successful rename through updateCategory,
\* updateProduct, updateGroup, updateService or updateBlog, the document's
\* slug is derived from its new name.
C24_RenameRederivesSlug ==
  [][/\ \A c \in CategoryIds, name \in Names :
          /\ updateCategory(c, name) /\ resp'.code = 200
          /\ name # categories[c].name
          => DerivedFrom(categories'[c].slug, name)
     /\ \A p \in ProductIds, body \in RenameBodies :
          /\ updateProduct(p, body) /\ products[p].exists
          /\ body.name # products[p].name /\ products'[p].name = body.name
          => DerivedFrom(products'[p].slug, body.name)
     /\ \A u \in Actors, g \in GroupIds, name \in Names :
          /\ updateGroup(u, g, name, FALSE) /\ resp'.code = 200
          /\ name # groups[g].name
          => DerivedFrom(groups'[g].slug, name)
     /\ \A s \in ServiceIds, title \in Names :
          /\ updateService(s, title) /\ resp'.code = 200
          /\ title # services[s].title
          => DerivedFrom(services'[s].slug, title)
     /\ \A b \in BlogIds, title \in Names :
          /\ updateBlog(b, title) /\ resp'.code = 200
          /\ title # blogs[b].title
          => DerivedFrom(blogs'[b].slug, title)]_vars


(* ---------------------- claims on concurrent requests ----------------- *)

\* C25 (as claimed): no two groups of the same service ever have the same
\* name, whatever createGroup and updateGroup requests are served, two
\* requests interleaving between their name lookup and their write included.
C25_GroupNamesUniqueInService ==
  \A g, h \in GroupIds :
    /\ g # h /\ groups[g].exists /\ groups[h].exists
    /\ groups[g].service_id = groups[h].service_id
    => groups[g].name # groups[h].name


(* ------------------------ claims on the stock ------------------------- *)

\* The cart operations, by the name their response carries.
CartOps ==
  {"getUserCart", "addToCart", "updateCartItem", "removeFromCart", "clearCart",
   "submitCart", "cancelCart", "approveCart", "rejectCart"}

C27_OnlyPendingJoinsDecided ==
  [][\A c \in Actors, g \in GroupIds, u \in Actors :
       approveUserJoin(c, g, u) \/ rejectUserJoin(c, g, u)
       => \A i \in 1..Len(groups[g].joined_users) :
            groups'[g].joined_users[i].status # groups[g].joined_users[i].status
            => groups[g].joined_users[i].status = "pending"]_vars


\* C28 (as claimed): a user never has more than one active cart, two
\* getUserCart or addToCart requests of a user with no active cart that are
\* served at the same time included.
C28_OneActiveCartPerUser ==
  \A u \in Users : Cardinality(ActiveIds(u)) <= 1

\* C29 (as claimed): whatever addToCart requests are served, two requests of
\* one user for one product served at the same time included, a cart has at
\* most one line for a product and the line's quantity is within the
\* product's stock.
C29_OneLineWithinStock ==
  \A i \in 1..Len(carts), p \in ProductIds :
    LET lines == {k \in 1..Len(carts[i].items) : carts[i].items[k].product_id = p}
    IN /\ Cardinality(lines) <= 1
       /\ \A k \in lines : carts[i].items[k].quantity <= products[p].quantity


\* C30: starting with an active admin, after any sequence of updateUser,
\* deleteUser (soft or permanent) and reactivateUser requests, each made by a
\* user who is an active admin when the request starts and served one at a
\* time, a user with role admin and isActive true remains.
C30_AnActiveAdminRemains ==
  \E u \in Accounts : users[u].exists /\ users[u].role = "admin" /\ users[u].isActive

\* The system admin, an active admin at the start, has been deleted by another
\* admin, and one active admin is left.
C30_Witness ==
  /\ resp = Response("deleteUser", 200, "user permanently deleted")
  /\ \A a \in Admins : ~users[a].exists
  /\ Cardinality(ActiveAdmins) = 1

=============================================================================
